---------------------------- MODULE Spec2Model ----------------------------
(***************************************************************************)
(* NovaEdit terminal mode (src/NovaEdit.py): the row buffer, the syntax    *)
(* highlighter, the edit commands, undo/redo, mark/copy/cut/paste, cursor  *)
(* movement and the key loop, as a state machine.                          *)
(*                                                                         *)
(* Text is a sequence of one-character strings.  Positions, columns and    *)
(* row numbers are 0-based as in the source; the sequence operators below  *)
(* translate to TLA+'s 1-based sequences.  Python's None is the empty      *)
(* tuple and a present value v is <<v>>.                                   *)
(***************************************************************************)
EXTENDS Integers, Sequences, FiniteSets, TLC

VARIABLES
  cursor_x, cursor_y, row_offset, col_offset,   \* EditorState, lines 95-98
  screen_rows, screen_cols,                     \* lines 99-100
  total_rows, rows,                             \* lines 101-102
  modified, file_name,                          \* lines 103-104
  status_message,                               \* line 105
  current_syntax,                               \* line 107
  undo_stack, redo_stack,                       \* lines 109-110
  mark_x, mark_y, clipboard,                    \* lines 112-114
  disk,                                         \* the files the editor opens and writes
  filename,                                     \* args.filename, line 1442
  quit_times,                                   \* terminal_process_keypress: quit_times, line 989
  raw_mode,                                     \* the terminal is in raw mode, lines 194-219
  pc,                                           \* where the process is: at a read of a key, or inside a command
  stdin,                                        \* the terminal input: bytes waiting and bytes still to come
  key,                                          \* terminal_process_keypress: the key just read
  error,                                        \* the exception that ended the process, or "none"
  nkeys,                                        \* number of keys read so far, counted up to MaxKeys
  trk                                           \* observer of an edit / undo / redo sequence

vars == << cursor_x, cursor_y, row_offset, col_offset, screen_rows, screen_cols,
           total_rows, rows, modified, file_name, status_message, current_syntax,
           undo_stack, redo_stack, mark_x, mark_y, clipboard, disk, filename, quit_times, raw_mode, pc, stdin,
           key, error,
           nkeys, trk >>

-----------------------------------------------------------------------------
(* Python values and sequence operations *)

None == << >>
Some(v) == << v >>
Val(o) == o[1]

Min(a, b) == IF a < b THEN a ELSE b
Max(a, b) == IF a > b THEN a ELSE b

\* s[a:b] for 0 <= a, 0 <= b
PySlice(s, a, b) == SubSeq(s, a + 1, Min(b, Len(s)))
\* s[a:]
PyFrom(s, a) == SubSeq(s, a + 1, Len(s))
\* s[:b]
PyTo(s, b) == SubSeq(s, 1, Min(b, Len(s)))
\* s.startswith(p, i)
StartsWith(s, p, i) == PySlice(s, i, i + Len(p)) = p
\* s.endswith(p)
EndsWith(s, p) == Len(p) <= Len(s) /\ SubSeq(s, Len(s) - Len(p) + 1, Len(s)) = p
\* [v] * n
Repeat(v, n) == [k \in 1..n |-> v]
\* list[i] with Python's negative indices: the 1-based place, 0 when out of range
PyIndex(n, i) == IF 0 <= i /\ i < n THEN i + 1
                 ELSE IF i < 0 /\ -n <= i THEN n + i + 1
                 ELSE 0
\* list.insert(i, v)
PyInsert(s, i, v) ==
  LET p == IF i < 0 THEN Max(Len(s) + i, 0) ELSE Min(i, Len(s))
  IN  SubSeq(s, 1, p) \o << v >> \o SubSeq(s, p + 1, Len(s))
\* del list[i], for an index in range
PyDelete(s, i) ==
  LET p == PyIndex(Len(s), i)
  IN  SubSeq(s, 1, p - 1) \o SubSeq(s, p + 1, Len(s))

RECURSIVE Join(_, _)
\* sep.join(lines)
Join(lines, sep) ==
  IF Len(lines) = 0 THEN << >>
  ELSE IF Len(lines) = 1 THEN lines[1]
  ELSE lines[1] \o sep \o Join(Tail(lines), sep)

RECURSIVE Split(_, _)
\* text.split(ch) for a one-character separator
Split(text, ch) ==
  IF \A k \in 1..Len(text) : text[k] # ch THEN << text >>
  ELSE LET p == CHOOSE k \in 1..Len(text) :
                  text[k] = ch /\ \A j \in 1..(k - 1) : text[j] # ch
       IN  << SubSeq(text, 1, p - 1) >> \o Split(SubSeq(text, p + 1, Len(text)), ch)

RECURSIVE Replace(_, _, _)
\* text.replace(ch, by) for a one-character ch
Replace(text, ch, by) ==
  IF Len(text) = 0 THEN << >>
  ELSE (IF text[1] = ch THEN by ELSE << text[1] >>) \o Replace(Tail(text), ch, by)

NL == "\n"
TAB == "\t"

-----------------------------------------------------------------------------
(* Highlight classes and the syntax table *)

HL_NORMAL == 0
HL_NONPRINT == 1
HL_COMMENT == 2
HL_MLCOMMENT == 3
HL_KEYWORD1 == 4
HL_KEYWORD2 == 5
HL_STRING == 6
HL_NUMBER == 7
HL_MATCH == 8

HL_HIGHLIGHT_STRINGS == 1
HL_HIGHLIGHT_NUMBERS == 2

C_EXTENSIONS ==
  <<
    <<".", "c">>, <<".", "h">>, <<".", "c", "p", "p">>,
    <<".", "h", "p", "p">>, <<".", "c", "c">> >>

C_KEYWORDS ==
  <<
    <<"a", "u", "t", "o">>, <<"b", "r", "e", "a", "k">>, <<"c", "a", "s", "e">>,
    <<"c", "o", "n", "t", "i", "n", "u", "e">>, <<"d", "e", "f", "a", "u", "l", "t">>, <<"d", "o">>,
    <<"e", "l", "s", "e">>, <<"e", "n", "u", "m">>, <<"e", "x", "t", "e", "r", "n">>,
    <<"f", "o", "r">>, <<"g", "o", "t", "o">>, <<"i", "f">>,
    <<"r", "e", "g", "i", "s", "t", "e", "r">>, <<"r", "e", "t", "u", "r", "n">>, <<"s", "i", "z", "e", "o", "f">>,
    <<"s", "t", "a", "t", "i", "c">>, <<"s", "t", "r", "u", "c", "t">>, <<"s", "w", "i", "t", "c", "h">>,
    <<"t", "y", "p", "e", "d", "e", "f">>, <<"u", "n", "i", "o", "n">>, <<"v", "o", "l", "a", "t", "i", "l", "e">>,
    <<"w", "h", "i", "l", "e">>, <<"N", "U", "L", "L">>, <<"a", "l", "i", "g", "n", "a", "s">>,
    <<"a", "l", "i", "g", "n", "o", "f">>, <<"a", "n", "d">>, <<"a", "n", "d", "_", "e", "q">>,
    <<"a", "s", "m">>, <<"b", "i", "t", "a", "n", "d">>, <<"b", "i", "t", "o", "r">>,
    <<"c", "l", "a", "s", "s">>, <<"c", "o", "m", "p", "l">>, <<"c", "o", "n", "s", "t", "e", "x", "p", "r">>,
    <<"c", "o", "n", "s", "t", "_", "c", "a", "s", "t">>, <<"d", "e", "l", "t", "y", "p", "e">>, <<"d", "e", "l", "e", "t", "e">>,
    <<"d", "y", "n", "a", "m", "i", "c", "_", "c", "a", "s", "t">>, <<"e", "x", "p", "l", "i", "c", "i", "t">>, <<"e", "x", "p", "o", "r", "t">>,
    <<"f", "a", "l", "s", "e">>, <<"f", "r", "i", "e", "n", "d">>, <<"i", "n", "l", "i", "n", "e">>,
    <<"m", "u", "t", "a", "b", "l", "e">>, <<"n", "a", "m", "e", "s", "p", "a", "c", "e">>, <<"n", "e", "w">>,
    <<"n", "o", "e", "x", "c", "e", "p", "t">>, <<"n", "o", "t">>, <<"n", "o", "t", "_", "e", "q">>,
    <<"n", "u", "l", "l", "p", "t", "r">>, <<"o", "p", "e", "r", "a", "t", "o", "r">>, <<"o", "r">>,
    <<"o", "r", "_", "e", "q">>, <<"p", "r", "i", "v", "a", "t", "e">>, <<"p", "r", "o", "t", "e", "c", "t", "e", "d">>,
    <<"p", "u", "b", "l", "i", "c">>, <<"r", "e", "i", "n", "t", "e", "r", "p", "r", "e", "t", "_", "c", "a", "s", "t">>, <<"s", "t", "a", "t", "i", "c", "_", "a", "s", "s", "e", "r", "t">>,
    <<"s", "t", "a", "t", "i", "c", "_", "c", "a", "s", "t">>, <<"t", "e", "m", "p", "l", "a", "t", "e">>, <<"t", "h", "i", "s">>,
    <<"t", "h", "r", "e", "a", "d", "_", "l", "o", "c", "a", "l">>, <<"t", "h", "r", "o", "w">>, <<"t", "r", "u", "e">>,
    <<"t", "r", "y">>, <<"t", "y", "p", "e", "i", "d">>, <<"t", "y", "p", "e", "n", "a", "m", "e">>,
    <<"v", "i", "r", "t", "u", "a", "l">>, <<"x", "o", "r">>, <<"x", "o", "r", "_", "e", "q">>,
    <<"i", "n", "t", "|">>, <<"l", "o", "n", "g", "|">>, <<"d", "o", "u", "b", "l", "e", "|">>,
    <<"f", "l", "o", "a", "t", "|">>, <<"c", "h", "a", "r", "|">>, <<"u", "n", "s", "i", "g", "n", "e", "d", "|">>,
    <<"s", "i", "g", "n", "e", "d", "|">>, <<"v", "o", "i", "d", "|">>, <<"s", "h", "o", "r", "t", "|">>,
    <<"a", "u", "t", "o", "|">>, <<"c", "o", "n", "s", "t", "|">>, <<"b", "o", "o", "l", "|">> >>

CLIKE_EXTENSIONS ==
  <<
    <<".", "c", "l", "i", "k", "e">> >>

CLIKE_KEYWORDS ==
  <<
    <<"i", "f">>, <<"e", "l", "s", "e">>, <<"w", "h", "i", "l", "e">>,
    <<"f", "o", "r">>, <<"r", "e", "t", "u", "r", "n">>, <<"p", "r", "i", "n", "t">>,
    <<"i", "n", "t", "|">>, <<"f", "l", "o", "a", "t", "|">>, <<"v", "o", "i", "d", "|">>,
    <<"c", "h", "a", "r", "|">>, <<"s", "t", "r", "i", "n", "g", "|">> >>

JS_EXTENSIONS ==
  <<
    <<".", "j", "s">> >>

JS_KEYWORDS ==
  <<
    <<"f", "u", "n", "c", "t", "i", "o", "n">>, <<"v", "a", "r">>, <<"l", "e", "t">>,
    <<"c", "o", "n", "s", "t">>, <<"i", "f">>, <<"e", "l", "s", "e">>,
    <<"s", "w", "i", "t", "c", "h">>, <<"c", "a", "s", "e">>, <<"d", "e", "f", "a", "u", "l", "t">>,
    <<"f", "o", "r">>, <<"w", "h", "i", "l", "e">>, <<"d", "o">>,
    <<"b", "r", "e", "a", "k">>, <<"c", "o", "n", "t", "i", "n", "u", "e">>, <<"r", "e", "t", "u", "r", "n">>,
    <<"t", "r", "y">>, <<"c", "a", "t", "c", "h">>, <<"t", "h", "r", "o", "w">>,
    <<"n", "e", "w">>, <<"t", "h", "i", "s">>, <<"t", "y", "p", "e", "o", "f">>,
    <<"i", "n", "s", "t", "a", "n", "c", "e", "o", "f">>, <<"t", "r", "u", "e">>, <<"f", "a", "l", "s", "e">>,
    <<"n", "u", "l", "l">>, <<"u", "n", "d", "e", "f", "i", "n", "e", "d">>, <<"N", "u", "m", "b", "e", "r", "|">>,
    <<"S", "t", "r", "i", "n", "g", "|">>, <<"B", "o", "o", "l", "e", "a", "n", "|">>, <<"O", "b", "j", "e", "c", "t", "|">>,
    <<"A", "r", "r", "a", "y", "|">>, <<"F", "u", "n", "c", "t", "i", "o", "n", "|">> >>

PY_EXTENSIONS ==
  <<
    <<".", "p", "y">> >>

PY_KEYWORDS ==
  <<
    <<"a", "n", "d">>, <<"a", "s">>, <<"a", "s", "s", "e", "r", "t">>,
    <<"b", "r", "e", "a", "k">>, <<"c", "l", "a", "s", "s">>, <<"c", "o", "n", "t", "i", "n", "u", "e">>,
    <<"d", "e", "f">>, <<"d", "e", "l">>, <<"e", "l", "i", "f">>,
    <<"e", "l", "s", "e">>, <<"e", "x", "c", "e", "p", "t">>, <<"f", "i", "n", "a", "l", "l", "y">>,
    <<"f", "o", "r">>, <<"f", "r", "o", "m">>, <<"g", "l", "o", "b", "a", "l">>,
    <<"i", "f">>, <<"i", "m", "p", "o", "r", "t">>, <<"i", "n">>,
    <<"i", "s">>, <<"l", "a", "m", "b", "d", "a">>, <<"n", "o", "n", "l", "o", "c", "a", "l">>,
    <<"n", "o", "t">>, <<"o", "r">>, <<"p", "a", "s", "s">>,
    <<"r", "a", "i", "s", "e">>, <<"r", "e", "t", "u", "r", "n">>, <<"t", "r", "y">>,
    <<"w", "h", "i", "l", "e">>, <<"w", "i", "t", "h">>, <<"y", "i", "e", "l", "d">>,
    <<"T", "r", "u", "e", "|">>, <<"F", "a", "l", "s", "e", "|">>, <<"N", "o", "n", "e", "|">> >>

EditorSyntax(file_extensions, keywords, scs, mcs, mce, flags) ==
  [ file_extensions |-> file_extensions, keywords |-> keywords,
    singleline_comment_start |-> scs, multiline_comment_start |-> mcs,
    multiline_comment_end |-> mce, flags |-> flags ]

SYNTAX_DB ==
  << EditorSyntax(C_EXTENSIONS, C_KEYWORDS, <<"/", "/">>, <<"/", "*">>, <<"*", "/">>,
                  HL_HIGHLIGHT_STRINGS + HL_HIGHLIGHT_NUMBERS),
     EditorSyntax(CLIKE_EXTENSIONS, CLIKE_KEYWORDS, <<"/", "/">>, <<"/", "*">>, <<"*", "/">>,
                  HL_HIGHLIGHT_STRINGS + HL_HIGHLIGHT_NUMBERS),
     EditorSyntax(JS_EXTENSIONS, JS_KEYWORDS, <<"/", "/">>, <<"/", "*">>, <<"*", "/">>,
                  HL_HIGHLIGHT_STRINGS + HL_HIGHLIGHT_NUMBERS),
     EditorSyntax(PY_EXTENSIONS, PY_KEYWORDS, <<"#">>, << >>, << >>,
                  HL_HIGHLIGHT_STRINGS + HL_HIGHLIGHT_NUMBERS) >>

\* the syntax whose extension ends file_name, first in table order; None without one.
\* A syntax is held as Some(its place in SYNTAX_DB).
select_syntax_highlight(fname) ==
  IF fname = None THEN None
  ELSE LET hit(k) == \E e \in 1..Len(SYNTAX_DB[k].file_extensions) :
                        EndsWith(Val(fname), SYNTAX_DB[k].file_extensions[e])
       IN  IF \E k \in 1..Len(SYNTAX_DB) : hit(k)
           THEN Some(CHOOSE k \in 1..Len(SYNTAX_DB) :
                       hit(k) /\ \A j \in 1..(k - 1) : ~hit(j))
           ELSE None

Digits == {"0", "1", "2", "3", "4", "5", "6", "7", "8", "9"}
Whitespace == {" ", "\t", "\n", "\r", "\f"}
SeparatorChars == {",", ".", "(", ")", "+", "-", "/", "*", "=", "~", "%", "[", "]", ";"}

\* the model's stand-in for the NUL character
NUL == "NUL"

is_separator(ch) == ch = NUL \/ ch \in Whitespace \/ ch \in SeparatorChars

\* highlight[j] = v for a <= j < b (0-based), within the line
Paint(hl, a, b, v) == [k \in 1..Len(hl) |-> IF a < k /\ k <= b THEN v ELSE hl[k]]

\* the keyword loop without the test of the character after the keyword
KeywordAt_any_follower(line, keywords, i) ==
  LET kw2(k) == keywords[k][Len(keywords[k])] = "|"
      klen(k) == IF kw2(k) THEN Len(keywords[k]) - 1 ELSE Len(keywords[k])
      match(k) == /\ line[i + 1] = keywords[k][1]
                  /\ PySlice(line, i, i + klen(k)) = PyTo(keywords[k], klen(k))
  IN  IF \E k \in 1..Len(keywords) : match(k)
      THEN CHOOSE k \in 1..Len(keywords) : match(k) /\ \A j \in 1..(k - 1) : ~match(j)
      ELSE 0

\* the first keyword (in list order) that matches line at i and is followed by a
\* separator or the end of the line; 0 when none does
KeywordAt(line, keywords, i) ==
  LET kw2(k) == keywords[k][Len(keywords[k])] = "|"
      klen(k) == IF kw2(k) THEN Len(keywords[k]) - 1 ELSE Len(keywords[k])
      match(k) == /\ line[i + 1] = keywords[k][1]
                  /\ PySlice(line, i, i + klen(k)) = PyTo(keywords[k], klen(k))
                  /\ (i + klen(k) >= Len(line) \/ is_separator(line[i + klen(k) + 1]))
  IN  IF \E k \in 1..Len(keywords) : match(k)
      THEN CHOOSE k \in 1..Len(keywords) : match(k) /\ \A j \in 1..(k - 1) : ~match(j)
      ELSE 0

\* the single-line comment painted on the marker only
line_comment_marker_only(line, scs, i, highlight) ==
  [highlight |-> Paint(highlight, i, i + Len(scs), HL_COMMENT), open_comment |-> FALSE]

\* a single-line comment from position i: the rest of the line, never carried over
line_comment(line, scs, i, highlight) ==
  [highlight |-> Paint(highlight, i, Len(line), HL_COMMENT), open_comment |-> FALSE]

RECURSIVE hl_scan(_, _, _, _, _, _, _)
\* the while loop of get_syntax_highlighting, from position i
hl_scan(line, syntax, i, prev_sep, in_string, in_comment, highlight) ==
  IF ~(i < Len(line)) THEN [highlight |-> highlight, open_comment |-> in_comment]
  ELSE
  LET ch == line[i + 1]
      keywords == syntax.keywords
      scs == syntax.singleline_comment_start
      mcs == syntax.multiline_comment_start
      mce == syntax.multiline_comment_end
      prev_number == i > 0 /\ highlight[i] = HL_NUMBER
      kw == IF prev_sep THEN KeywordAt(line, keywords, i) ELSE 0
      kw2 == keywords[kw][Len(keywords[kw])] = "|"
      klen == IF kw2 THEN Len(keywords[kw]) - 1 ELSE Len(keywords[kw])
  IN
  IF Len(scs) > 0 /\ in_string = "" /\ ~in_comment /\ StartsWith(line, scs, i)
  THEN line_comment(line, scs, i, highlight)
  ELSE IF in_comment
  THEN IF Len(mce) > 0 /\ StartsWith(line, mce, i)
       THEN hl_scan(line, syntax, i + Len(mce), TRUE, in_string, FALSE,
                    Paint(highlight, i, i + Len(mce), HL_MLCOMMENT))
       ELSE hl_scan(line, syntax, i + 1, FALSE, in_string, TRUE,
                    Paint(highlight, i, i + 1, HL_MLCOMMENT))
  ELSE IF Len(mcs) > 0 /\ StartsWith(line, mcs, i)
  THEN hl_scan(line, syntax, i + Len(mcs), FALSE, in_string, TRUE,
               Paint(highlight, i, i + Len(mcs), HL_MLCOMMENT))
  ELSE IF in_string # ""
  THEN IF ch = "\\" /\ i + 1 < Len(line)
       THEN hl_scan(line, syntax, i + 2, FALSE, in_string, in_comment,
                    Paint(highlight, i, i + 2, HL_STRING))
       ELSE hl_scan(line, syntax, i + 1, prev_sep,
                    IF ch = in_string THEN "" ELSE in_string, in_comment,
                    Paint(highlight, i, i + 1, HL_STRING))
  ELSE IF ch \in {"\"", "'"}
  THEN hl_scan(line, syntax, i + 1, FALSE, ch, in_comment,
               Paint(highlight, i, i + 1, HL_STRING))
  ELSE IF \/ (ch \in Digits /\ (prev_sep \/ prev_number))
          \/ (ch = "." /\ prev_number)
  THEN hl_scan(line, syntax, i + 1, FALSE, in_string, in_comment,
               Paint(highlight, i, i + 1, HL_NUMBER))
  ELSE IF kw # 0
  THEN hl_scan(line, syntax, i + klen, FALSE, in_string, in_comment,
               Paint(highlight, i, i + klen, IF kw2 THEN HL_KEYWORD2 ELSE HL_KEYWORD1))
  ELSE hl_scan(line, syntax, i + 1, is_separator(ch), in_string, in_comment, highlight)

\* get_syntax_highlighting(line, syntax, prev_open_comment): the classes and the
\* carried-out block-comment flag
get_syntax_highlighting(line, syntax, prev_open_comment) ==
  IF syntax = None
  THEN [highlight |-> Repeat(HL_NORMAL, Len(line)), open_comment |-> FALSE]
  ELSE hl_scan(line, SYNTAX_DB[Val(syntax)], 0, TRUE, "", prev_open_comment,
               Repeat(HL_NORMAL, Len(line)))

-----------------------------------------------------------------------------
(* Rows.  The operators below work on a record E of the EditorState fields  *)
(* (with the field `error`, and the field `det` holding the EditorRow under *)
(* construction, which is not yet in E.rows).  A row is addressed by its    *)
(* place: 0 is E.det, p >= 1 is E.rows[p].                                  *)

Ok(E) == E.error = "none"
Raise(E, exc) == [E EXCEPT !.error = exc]

GetRow(E, p) == IF p = 0 THEN E.det ELSE E.rows[p]
SetRow(E, p, r) == IF p = 0 THEN [E EXCEPT !.det = r] ELSE [E EXCEPT !.rows[p] = r]

\* EditorRow.has_open_comment
has_open_comment(row) ==
  /\ Len(row.highlight) > 0
  /\ row.rendered_size # 0
  /\ row.highlight[Len(row.highlight)] = HL_MLCOMMENT
  /\ \/ row.rendered_size < 2
     \/ row.rendered_content[Len(row.rendered_content) - 1] # "*"
     \/ row.rendered_content[Len(row.rendered_content)] # "/"

\* the depth at which the interpreter gives up a recursion of update_syntax
RecursionFuel(E) == 2 * Len(E.rows) + 4

\* self.highlight = [HL_NORMAL] * self.rendered_size
reset_highlight(E, p) ==
  SetRow(E, p, [GetRow(E, p) EXCEPT !.highlight = Repeat(HL_NORMAL, GetRow(E, p).rendered_size)])

\* self.open_comment = new_open_comment, once the rows below are done
set_open_comment(E, p, new_open_comment) ==
  IF ~Ok(E) THEN E
  ELSE SetRow(E, p, [GetRow(E, p) EXCEPT !.open_comment = new_open_comment])

RECURSIVE update_syntax(_, _, _), highlight_row(_, _, _), propagate(_, _, _, _)
\* EditorRow.update_syntax of the row at place p
update_syntax(E, p, fuel) ==
  IF ~Ok(E) THEN E
  ELSE IF fuel = 0 THEN Raise(E, "RecursionError")
  ELSE IF E.current_syntax = None THEN reset_highlight(E, p)
  ELSE highlight_row(reset_highlight(E, p), p, fuel)

\* update_syntax from the call of get_syntax_highlighting on
highlight_row(E, p, fuel) ==
  LET self == GetRow(E, p)
      pp == PyIndex(Len(E.rows), self.index - 1)
  IN  IF self.index > 0 /\ pp = 0 THEN Raise(E, "IndexError")
      ELSE propagate(E, p, fuel,
                     get_syntax_highlighting(self.rendered_content, E.current_syntax,
                                             self.index > 0 /\ has_open_comment(E.rows[pp])))

\* update_syntax from the assignment of the result r on: the row below is
\* updated when the comment state of this row changed
propagate(E, p, fuel, r) ==
  LET self == GetRow(E, p)
      np == PyIndex(Len(E.rows), self.index + 1)
      E2 == SetRow(E, p, [self EXCEPT !.highlight = r.highlight])
  IN  set_open_comment(
        IF self.open_comment # r.open_comment /\ self.index + 1 < E.total_rows
        THEN IF np = 0 THEN Raise(E2, "IndexError")
             ELSE update_syntax(E2, np, fuel - 1)
        ELSE E2,
        p, r.open_comment)

\* EditorRow.update_rendered
update_rendered(E, p) ==
  LET self == GetRow(E, p)
      rendered == Replace(self.content, TAB, Repeat(" ", 8))
  IN  update_syntax(SetRow(E, p, [self EXCEPT !.rendered_content = rendered,
                                              !.rendered_size = Len(rendered)]),
                    p, RecursionFuel(E))

\* EditorRow.__init__: the new row is E.det
EditorRow(E, index, content) ==
  update_rendered([E EXCEPT !.det = [ index |-> index, content |-> content,
                                      content_size |-> Len(content),
                                      rendered_content |-> << >>, rendered_size |-> 0,
                                      highlight |-> << >>, open_comment |-> FALSE ]],
                  0)

\* EditorRow.insert_char
row_insert_char(E, p, position, ch) ==
  LET self == GetRow(E, p)
      pos == IF position > self.content_size THEN self.content_size ELSE position
  IN  update_rendered(SetRow(E, p, [self EXCEPT
                          !.content = PyTo(self.content, pos) \o << ch >> \o PyFrom(self.content, pos),
                          !.content_size = self.content_size + 1]), p)

\* EditorRow.append_string
row_append_string(E, p, string) ==
  LET self == GetRow(E, p)
  IN  update_rendered(SetRow(E, p, [self EXCEPT
                          !.content = self.content \o string,
                          !.content_size = self.content_size + Len(string)]), p)

\* EditorRow.delete_char
row_delete_char(E, p, position) ==
  LET self == GetRow(E, p)
  IN  IF position >= self.content_size THEN E
      ELSE update_rendered(SetRow(E, p, [self EXCEPT
                          !.content = PyTo(self.content, position) \o PyFrom(self.content, position + 1),
                          !.content_size = self.content_size - 1]), p)

\* the value get_content_col stands for when it raises IndexError
RAISES == -1

RECURSIVE content_col_loop(_, _, _, _)
content_col_loop(row, rendered_col, content_col, rendered) ==
  IF ~(content_col < row.content_size /\ rendered < rendered_col) THEN content_col
  ELSE IF content_col >= Len(row.content) THEN RAISES
  ELSE IF row.content[content_col + 1] = TAB
       THEN LET tab_len == 8 - (rendered % 8)
            IN  IF rendered + tab_len > rendered_col THEN content_col
                ELSE content_col_loop(row, rendered_col, content_col + 1, rendered + tab_len)
       ELSE content_col_loop(row, rendered_col, content_col + 1, rendered + 1)

\* get_content_col(row, rendered_col): the content column, or RAISES
get_content_col(row, rendered_col) == content_col_loop(row, rendered_col, 0, 0)

RECURSIVE rendered_col_loop(_, _, _, _)
rendered_col_loop(content, n, i, rendered) ==
  IF i >= n THEN rendered
  ELSE rendered_col_loop(content, n, i + 1,
                         IF content[i + 1] = TAB THEN rendered + 8 - (rendered % 8)
                         ELSE rendered + 1)

\* get_rendered_col(row, content_col)
get_rendered_col(row, content_col) ==
  rendered_col_loop(row.content, Min(content_col, Len(row.content)), 0, 0)


RECURSIVE bump_index(_, _, _, _)
\* for i in range(lo, hi): E.rows[i].index += d
bump_index(E, lo, hi, d) ==
  IF ~Ok(E) \/ lo >= hi THEN E
  ELSE IF PyIndex(Len(E.rows), lo) = 0 THEN Raise(E, "IndexError")
  ELSE bump_index([E EXCEPT !.rows[PyIndex(Len(E.rows), lo)].index = @ + d], lo + 1, hi, d)

\* E.total_rows += d; E.modified = 1
count_rows(E, d) ==
  IF ~Ok(E) THEN E ELSE [E EXCEPT !.total_rows = @ + d, !.modified = 1]

\* insert_editor_row from E.rows.insert(position, new_row) on: the new row is E.det
place_row(E, position) ==
  IF ~Ok(E) THEN E
  ELSE count_rows(bump_index([E EXCEPT !.rows = PyInsert(E.rows, position, E.det)],
                             position + 1, E.total_rows + 1, 1),
                  1)

\* insert_editor_row(position, content)
insert_editor_row(E, position, content) ==
  place_row(EditorRow(E, IF position > E.total_rows THEN E.total_rows ELSE position, content),
            IF position > E.total_rows THEN E.total_rows ELSE position)

\* the place of the new row after insert_editor_row(position, ...) into n rows
InsertPlace(n, total, position) ==
  LET pos == IF position > total THEN total ELSE position
  IN  (IF pos < 0 THEN Max(n + pos, 0) ELSE Min(pos, n)) + 1

\* delete_editor_row(position)
delete_editor_row(E, position) ==
  IF position >= E.total_rows THEN E
  ELSE IF PyIndex(Len(E.rows), position) = 0 THEN Raise(E, "IndexError")
  ELSE count_rows(bump_index([E EXCEPT !.rows = PyDelete(E.rows, position)],
                             position, E.total_rows - 1, -1),
                  -1)

\* [row.content for row in E.rows]
RowContents(E) == [k \in 1..Len(E.rows) |-> E.rows[k].content]

\* rows_to_string()
rows_to_string(E) == Join(RowContents(E), << NL >>) \o << NL >>

-----------------------------------------------------------------------------
(* Undo / redo *)

\* the most snapshots save_undo_state keeps
UNDO_LIMIT == 50

Msg(text) == << text >>

set_status_message(E, message) == [E EXCEPT !.status_message = message]

\* the tuple (rows_copy, cursor_x, cursor_y, col_offset, row_offset)
Snapshot(E) ==
  [ rows |-> RowContents(E), cursor_x |-> E.cursor_x, cursor_y |-> E.cursor_y,
    col_offset |-> E.col_offset, row_offset |-> E.row_offset ]

\* save_undo_state() without the length check of line 492
save_undo_state_unbounded(E) ==
  [E EXCEPT !.undo_stack = Append(E.undo_stack, Snapshot(E)), !.redo_stack = << >>]

\* save_undo_state() without E.redo_stack = [] of line 491
save_undo_state_keeps_redo(E) ==
  [E EXCEPT !.undo_stack = IF Len(@) + 1 > UNDO_LIMIT
                           THEN Tail(Append(@, Snapshot(E)))
                           ELSE Append(@, Snapshot(E))]

\* save_undo_state()
save_undo_state(E) ==
  [E EXCEPT !.undo_stack = IF Len(@) + 1 > UNDO_LIMIT
                           THEN Tail(Append(@, Snapshot(E)))
                           ELSE Append(@, Snapshot(E)),
            !.redo_stack = << >>]

RECURSIVE load_rows(_, _)
\* for content in rows_copy: insert_editor_row(E.total_rows, content)
load_rows(E, rows_copy) ==
  IF ~Ok(E) \/ Len(rows_copy) = 0 THEN E
  ELSE load_rows(insert_editor_row(E, E.total_rows, rows_copy[1]), Tail(rows_copy))

\* the same without the assignment of the cursor and the offsets
restore_rows_only(E, snap, message) ==
  IF ~Ok(E) THEN E ELSE set_status_message([E EXCEPT !.modified = 1], Msg(message))

\* what undo() and redo() do once the rows of the snapshot snap are loaded
restore(E, snap, message) ==
  IF ~Ok(E) THEN E
  ELSE set_status_message(
         [E EXCEPT !.cursor_x = snap.cursor_x, !.cursor_y = snap.cursor_y,
                   !.col_offset = snap.col_offset, !.row_offset = snap.row_offset,
                   !.modified = 1],
         Msg(message))

\* undo()
undo(E) ==
  IF Len(E.undo_stack) = 0 THEN set_status_message(E, Msg("Nothing to undo"))
  ELSE restore(load_rows([E EXCEPT !.redo_stack = Append(@, Snapshot(E)),
                                   !.undo_stack = SubSeq(@, 1, Len(@) - 1),
                                   !.rows = << >>, !.total_rows = 0],
                         E.undo_stack[Len(E.undo_stack)].rows),
               E.undo_stack[Len(E.undo_stack)], "Undo performed")

\* redo()
redo(E) ==
  IF Len(E.redo_stack) = 0 THEN set_status_message(E, Msg("Nothing to redo"))
  ELSE restore(load_rows([E EXCEPT !.undo_stack = Append(@, Snapshot(E)),
                                   !.redo_stack = SubSeq(@, 1, Len(@) - 1),
                                   !.rows = << >>, !.total_rows = 0],
                         E.redo_stack[Len(E.redo_stack)].rows),
               E.redo_stack[Len(E.redo_stack)], "Redo performed")

-----------------------------------------------------------------------------
(* Edit commands *)

FileRow(E) == E.row_offset + E.cursor_y

\* insert_char from the cursor update on
insert_char_cursor(E) ==
  IF ~Ok(E) THEN E
  ELSE [E EXCEPT !.cursor_x = IF @ + 1 = E.screen_cols THEN @ ELSE @ + 1,
                 !.col_offset = IF E.cursor_x + 1 = E.screen_cols THEN @ + 1 ELSE @,
                 !.modified = 1, !.mark_x = None, !.mark_y = None]

\* insert_char from row = E.rows[file_row] on
insert_char_into(E, file_row, ch) ==
  LET p == PyIndex(Len(E.rows), file_row)
      file_col == get_content_col(E.rows[p], E.col_offset + E.cursor_x)
  IN  IF ~Ok(E) THEN E
      ELSE IF p = 0 THEN Raise(E, "IndexError")
      ELSE IF file_col = RAISES THEN Raise(E, "IndexError")
      ELSE insert_char_cursor(row_insert_char(E, p, file_col, ch))

\* insert_char(ch)
insert_char(E, ch) ==
  insert_char_into(IF E.total_rows <= Min(FileRow(E), E.total_rows)
                   THEN insert_editor_row(save_undo_state(E), E.total_rows, << >>)
                   ELSE save_undo_state(E),
                   Min(FileRow(E), E.total_rows), ch)

\* row.content = row.content[:file_col]; row.update_rendered()
split_row(E, p, head) ==
  IF ~Ok(E) THEN E ELSE update_rendered([E EXCEPT !.rows[p].content = head], p)

\* insert_newline from the cursor update on
insert_newline_cursor(E) ==
  IF ~Ok(E) THEN E
  ELSE [E EXCEPT !.cursor_x = 0, !.col_offset = 0,
                 !.row_offset = IF E.cursor_y = E.screen_rows - 1 THEN @ + 1 ELSE @,
                 !.cursor_y = IF @ = E.screen_rows - 1 THEN @ ELSE @ + 1,
                 !.mark_x = None, !.mark_y = None]

\* insert_newline after save_undo_state()
insert_newline_at(E, file_row) ==
  LET p == PyIndex(Len(E.rows), file_row)
      row == E.rows[p]
      file_col0 == get_content_col(row, E.col_offset + E.cursor_x)
      file_col == IF file_col0 > row.content_size THEN row.content_size ELSE file_col0
      q == InsertPlace(Len(E.rows), E.total_rows, file_row + 1)
  IN  insert_newline_cursor(
        IF E.total_rows <= file_row THEN insert_editor_row(E, file_row, << >>)
        ELSE IF p = 0 THEN Raise(E, "IndexError")
        ELSE IF file_col0 = RAISES THEN Raise(E, "IndexError")
        ELSE IF file_col = 0 THEN insert_editor_row(E, file_row, << >>)
        ELSE \* the split: the tail becomes a new row, then the row keeps its head
             split_row(insert_editor_row(E, file_row + 1, PyFrom(row.content, file_col)),
                       IF p >= q THEN p + 1 ELSE p, PyTo(row.content, file_col)))

\* insert_newline()
insert_newline(E) == insert_newline_at(save_undo_state(E), FileRow(E))

\* delete_char: the cursor goes to rendered column x of the previous row
merge_cursor(E, x) ==
  IF ~Ok(E) THEN E
  ELSE [E EXCEPT !.row_offset = IF E.cursor_y = 0 /\ @ > 0 THEN @ - 1 ELSE @,
                 !.cursor_y = IF @ = 0 THEN @ ELSE @ - 1,
                 !.col_offset = IF x >= E.screen_cols THEN x - E.screen_cols + 1 ELSE 0,
                 !.cursor_x = IF x >= E.screen_cols THEN E.screen_cols - 1
                              ELSE IF x < 0 THEN 0 ELSE x]

\* delete_char after prev_row.append_string(row.content): the row is removed
merge_rows(E, file_row, pp, prev_row_len_before) ==
  IF ~Ok(E) THEN E
  ELSE merge_cursor(delete_editor_row(E, file_row),
                    get_rendered_col(E.rows[pp], prev_row_len_before))

\* delete_char: the cursor goes one column left
step_left(E) ==
  IF ~Ok(E) THEN E
  ELSE [E EXCEPT !.cursor_x = IF @ > 0 THEN @ - 1 ELSE @,
                 !.col_offset = IF E.cursor_x > 0 THEN @
                                ELSE IF @ > 0 THEN @ - 1 ELSE @]

\* delete_char: E.modified = 1 and the mark is dropped
delete_char_done(E) ==
  IF ~Ok(E) THEN E ELSE [E EXCEPT !.modified = 1, !.mark_x = None, !.mark_y = None]

\* delete_char after save_undo_state()
delete_char_at(E, file_row) ==
  LET p == PyIndex(Len(E.rows), file_row)
      row == E.rows[p]
      rendered_pos == E.col_offset + E.cursor_x
      pp == PyIndex(Len(E.rows), file_row - 1)
      position == get_content_col(row, rendered_pos - 1)
  IN  IF file_row >= E.total_rows THEN E
      ELSE IF p = 0 THEN Raise(E, "IndexError")
      ELSE IF rendered_pos = 0
      THEN IF file_row = 0 THEN E
           ELSE IF pp = 0 THEN Raise(E, "IndexError")
           ELSE \* merge into the previous row
                delete_char_done(merge_rows(row_append_string(E, pp, row.content),
                                            file_row, pp, E.rows[pp].content_size))
      ELSE IF position = RAISES THEN Raise(E, "IndexError")
      ELSE \* delete the character before the cursor
           delete_char_done(step_left(row_delete_char(E, p, position)))

\* delete_char()
delete_char(E) == delete_char_at(save_undo_state(E), FileRow(E))

-----------------------------------------------------------------------------
(* Keys *)

NULL_KEY == 0
CTRL_A == 1
CTRL_B == 2
CTRL_C == 3
CTRL_D == 4
CTRL_F == 6
CTRL_H == 8
TAB_KEY == 9
CTRL_L == 12
ENTER == 13
CTRL_O == 15
CTRL_Q == 17
CTRL_R == 18
CTRL_S == 19
CTRL_U == 21
CTRL_V == 22
CTRL_X == 24
CTRL_Z == 26
ESC == 27
BACKSPACE == 127
ARROW_LEFT == 1000
ARROW_RIGHT == 1001
ARROW_UP == 1002
ARROW_DOWN == 1003
DEL_KEY == 1004
HOME_KEY == 1005
END_KEY == 1006
PAGE_UP == 1007
PAGE_DOWN == 1008

\* the characters of codes 32..126 (code 96 is written GRAVE)
PRINTABLE ==
  << " ", "!", "\"", "#", "$", "%", "&", "'", "(", ")", "*", "+", ",", "-", ".", "/",
     "0", "1", "2", "3", "4", "5", "6", "7", "8", "9", ":", ";", "<", "=", ">", "?",
     "@", "A", "B", "C", "D", "E", "F", "G", "H", "I", "J", "K", "L", "M", "N", "O",
     "P", "Q", "R", "S", "T", "U", "V", "W", "X", "Y", "Z", "[", "\\", "]", "^", "_",
     "GRAVE", "a", "b", "c", "d", "e", "f", "g", "h", "i", "j", "k", "l", "m", "n", "o",
     "p", "q", "r", "s", "t", "u", "v", "w", "x", "y", "z", "{", "|", "}", "~" >>

\* chr(code): the character itself for 32..126, the code in decimal otherwise
chr(code) == IF 32 <= code /\ code <= 126 THEN PRINTABLE[code - 31] ELSE ToString(code)

\* ord(ch) for a character of codes 32..126
ord(ch) == 31 + CHOOSE k \in 1..Len(PRINTABLE) : PRINTABLE[k] = ch

-----------------------------------------------------------------------------
(* Cursor movement *)

\* E.rows[file_row] if file_row < E.total_rows else None: the row's place, 0 for
\* None, RAISES when the index is out of range
RowOrNone(E, file_row) ==
  IF ~(file_row < E.total_rows) THEN 0
  ELSE IF PyIndex(Len(E.rows), file_row) = 0 THEN RAISES
  ELSE PyIndex(Len(E.rows), file_row)

\* ARROW_LEFT at the start of a row: onto the end of the previous row
end_of_previous_row(E, file_row) ==
  LET x == E.rows[PyIndex(Len(E.rows), file_row - 1)].rendered_size
  IN  IF PyIndex(Len(E.rows), file_row - 1) = 0 THEN Raise(E, "IndexError")
      ELSE [E EXCEPT !.cursor_y = @ - 1,
                     !.cursor_x = IF x > E.screen_cols - 1 THEN E.screen_cols - 1 ELSE x,
                     !.col_offset = IF x > E.screen_cols - 1 THEN x - E.screen_cols + 1 ELSE @]

\* move_cursor: the branch of the key
move_step(E, k) ==
  LET file_row == FileRow(E)
      r0 == RowOrNone(E, file_row)
      file_col == E.col_offset + E.cursor_x
  IN  IF k = ARROW_LEFT
      THEN IF E.cursor_x = 0
           THEN IF E.col_offset # 0 THEN [E EXCEPT !.col_offset = @ - 1]
                ELSE IF file_row > 0 THEN end_of_previous_row(E, file_row)
                ELSE E
           ELSE [E EXCEPT !.cursor_x = @ - 1]
      ELSE IF k = ARROW_RIGHT
      THEN IF r0 # 0
           THEN IF file_col < E.rows[r0].rendered_size
                THEN IF E.cursor_x = E.screen_cols - 1
                     THEN [E EXCEPT !.col_offset = @ + 1]
                     ELSE [E EXCEPT !.cursor_x = @ + 1]
                ELSE IF file_col = E.rows[r0].rendered_size /\ file_row < E.total_rows - 1
                     THEN [E EXCEPT !.cursor_x = 0, !.col_offset = 0, !.cursor_y = @ + 1]
                     ELSE E
           ELSE E
      ELSE IF k = ARROW_UP
      THEN IF E.cursor_y = 0
           THEN IF E.row_offset # 0 THEN [E EXCEPT !.row_offset = @ - 1] ELSE E
           ELSE [E EXCEPT !.cursor_y = @ - 1]
      ELSE IF k = ARROW_DOWN
      THEN IF file_row < E.total_rows - 1
           THEN IF E.cursor_y = E.screen_rows - 1
                THEN [E EXCEPT !.row_offset = @ + 1]
                ELSE [E EXCEPT !.cursor_y = @ + 1]
           ELSE E
      ELSE E

\* move_cursor without the snap to the end of the row
snap_cursor_skipped(E) == E

\* move_cursor: the cursor is snapped to the end of the row it is now on
snap_cursor(E) ==
  LET r1 == RowOrNone(E, FileRow(E))
      row_len == IF r1 = 0 THEN 0 ELSE E.rows[r1].rendered_size
      x == row_len - E.col_offset
  IN  IF ~Ok(E) THEN E
      ELSE IF r1 = RAISES THEN Raise(E, "IndexError")
      ELSE IF E.col_offset + E.cursor_x > row_len
           THEN IF x < 0 THEN [E EXCEPT !.col_offset = row_len, !.cursor_x = 0]
                ELSE [E EXCEPT !.cursor_x = x]
           ELSE E

\* move_cursor(key)
move_cursor(E, k) ==
  IF RowOrNone(E, FileRow(E)) = RAISES THEN Raise(E, "IndexError")
  ELSE snap_cursor(move_step(E, k))

RECURSIVE move_cursor_times(_, _, _)
\* while times: move_cursor(direction); times -= 1
move_cursor_times(E, direction, times) ==
  IF ~Ok(E) \/ times = 0 THEN E
  ELSE move_cursor_times(move_cursor(E, direction), direction, times - 1)

-----------------------------------------------------------------------------
(* Mark, copy, cut, paste *)

\* set_mark()
set_mark(E) ==
  set_status_message([E EXCEPT !.mark_x = Some(E.col_offset + E.cursor_x),
                               !.mark_y = Some(E.row_offset + E.cursor_y)],
                     Msg("Mark set"))

\* start_y, end_y = sorted([mark_y, row]); start_x, end_x by which of them is the mark
SelectionBounds(E) ==
  LET cy == E.row_offset + E.cursor_y
      cx == E.col_offset + E.cursor_x
      start_y == Min(Val(E.mark_y), cy)
      end_y == Max(Val(E.mark_y), cy)
  IN  [ start_y |-> start_y, end_y |-> end_y,
        start_x |-> IF start_y = Val(E.mark_y) THEN Val(E.mark_x) ELSE cx,
        end_x |-> IF start_y = Val(E.mark_y) THEN cx ELSE Val(E.mark_x) ]

RECURSIVE clipboard_lines(_, _, _, _)
\* the for loop of copy_selection from row y, appending to lines; raised is TRUE
\* when a row or a character index is out of range
clipboard_lines(E, b, y, lines) ==
  IF y > b.end_y THEN [raised |-> FALSE, lines |-> lines]
  ELSE IF y >= E.total_rows THEN clipboard_lines(E, b, y + 1, lines)
  ELSE IF PyIndex(Len(E.rows), y) = 0 THEN [raised |-> TRUE, lines |-> lines]
  ELSE LET row == E.rows[PyIndex(Len(E.rows), y)]
           line_start == IF y = b.start_y THEN b.start_x ELSE 0
           line_end == IF y = b.end_y THEN b.end_x ELSE row.rendered_size
           content_start == get_content_col(row, line_start)
           content_end == get_content_col(row, line_end)
       IN  IF content_start = RAISES \/ content_end = RAISES
           THEN [raised |-> TRUE, lines |-> lines]
           ELSE clipboard_lines(E, b, y + 1,
                                Append(lines, PySlice(row.content, content_start, content_end)))

\* copy_selection()
copy_selection(E) ==
  IF E.mark_y = None \/ E.mark_x = None THEN set_status_message(E, Msg("No selection"))
  ELSE LET b == SelectionBounds(E)
           got == clipboard_lines(E, b, b.start_y, << >>)
       IN  IF got.raised THEN Raise(E, "IndexError")
           ELSE set_status_message([E EXCEPT !.clipboard = Join(got.lines, << NL >>)],
                                   Msg("Copied to clipboard"))

RECURSIVE delete_rows_down(_, _, _)
\* for y in range(end_y, start_y, -1): if y < E.total_rows: delete_editor_row(y)
delete_rows_down(E, y, start_y) ==
  IF ~Ok(E) \/ y <= start_y THEN E
  ELSE delete_rows_down(IF y < E.total_rows THEN delete_editor_row(E, y) ELSE E,
                        y - 1, start_y)

\* the cursor is put on file row y, rendered column x, scrolling as needed
place_cursor(E, y, x) ==
  LET ro1 == IF y < E.row_offset THEN y ELSE E.row_offset
      ro2 == IF y >= ro1 + E.screen_rows THEN y - E.screen_rows + 1 ELSE ro1
      co1 == IF x < E.col_offset THEN x ELSE E.col_offset
      co2 == IF x >= co1 + E.screen_cols THEN x - E.screen_cols + 1 ELSE co1
  IN  [E EXCEPT !.row_offset = ro2, !.cursor_y = y - ro2,
                !.col_offset = co2, !.cursor_x = x - co2]

\* cut_selection: the cursor goes to the start of the selection
cut_done(E, start_y, start_x) ==
  IF ~Ok(E) THEN E
  ELSE set_status_message(
         [place_cursor(E, start_y, start_x) EXCEPT
            !.mark_x = None, !.mark_y = None, !.modified = 1],
         Msg("Cut to clipboard"))

\* cut_selection after save_undo_state()
cut_saved(E) ==
  LET b == SelectionBounds(E)
      fp == PyIndex(Len(E.rows), b.start_y)
      lp == PyIndex(Len(E.rows), b.end_y)
      start_x_content == get_content_col(E.rows[fp], b.start_x)
      end_x_content == get_content_col(E.rows[lp], b.end_x)
  IN  IF E.mark_y = None THEN Raise(E, "TypeError")
      ELSE IF fp = 0 \/ lp = 0 THEN Raise(E, "IndexError")
      ELSE IF start_x_content = RAISES \/ end_x_content = RAISES THEN Raise(E, "IndexError")
      ELSE cut_done(
             delete_rows_down(
               update_rendered(
                 [E EXCEPT !.rows[fp].content =
                             PyTo(E.rows[fp].content, start_x_content)
                               \o PyFrom(E.rows[lp].content, end_x_content)], fp),
               b.end_y, b.start_y),
             b.start_y, b.start_x)

\* cut_selection after copy_selection()
cut_copied(E) ==
  IF ~Ok(E) THEN E
  ELSE IF Len(E.clipboard) = 0 THEN E
  ELSE cut_saved(save_undo_state(E))

\* cut_selection()
cut_selection(E) == cut_copied(copy_selection(E))

RECURSIVE insert_lines(_, _, _)
\* for line in lines[1:]: file_row += 1; insert_editor_row(file_row, line)
insert_lines(E, file_row, lines) ==
  IF ~Ok(E) \/ Len(lines) = 0 THEN E
  ELSE insert_lines(insert_editor_row(E, file_row + 1, lines[1]), file_row + 1, Tail(lines))

RECURSIVE update_rendered_range(_, _, _)
\* for i in range(lo, hi): if i < E.total_rows: E.rows[i].update_rendered()
update_rendered_range(E, lo, hi) ==
  IF ~Ok(E) \/ lo >= hi THEN E
  ELSE IF ~(lo < E.total_rows) THEN update_rendered_range(E, lo + 1, hi)
  ELSE IF PyIndex(Len(E.rows), lo) = 0 THEN Raise(E, "IndexError")
  ELSE update_rendered_range(update_rendered(E, PyIndex(Len(E.rows), lo)), lo + 1, hi)

\* paste_clipboard: the cursor goes behind the pasted text
paste_cursor(E, new_cursor_y_file, new_cursor_x_content) ==
  LET np == PyIndex(Len(E.rows), new_cursor_y_file)
  IN  IF ~Ok(E) THEN E
      ELSE IF np = 0 THEN Raise(E, "IndexError")
      ELSE set_status_message(
             [place_cursor(E, new_cursor_y_file,
                           get_rendered_col(E.rows[np], new_cursor_x_content))
                EXCEPT !.modified = 1],
             Msg("Pasted from clipboard"))

\* paste_clipboard: the rest of the split row is appended to the last pasted row
paste_tail(E, last, remaining_content, new_cursor_x_content) ==
  LET lp == PyIndex(Len(E.rows), last)
  IN  IF ~Ok(E) THEN E
      ELSE IF lp = 0 THEN Raise(E, "IndexError")
      ELSE paste_cursor(
             update_rendered_range(
               update_rendered([E EXCEPT !.rows[lp].content = @ \o remaining_content], lp),
               FileRow(E), last + 1),
             last, new_cursor_x_content)

\* paste_clipboard from row = E.rows[file_row] on
paste_lines(E, lines, file_row) ==
  LET p == PyIndex(Len(E.rows), file_row)
      row == E.rows[p]
      file_col == get_content_col(row, E.col_offset + E.cursor_x)
  IN  IF ~Ok(E) THEN E
      ELSE IF p = 0 THEN Raise(E, "IndexError")
      ELSE IF file_col = RAISES THEN Raise(E, "IndexError")
      ELSE paste_tail(
             insert_lines([E EXCEPT !.rows[p].content = PyTo(row.content, file_col) \o lines[1]],
                          file_row, Tail(lines)),
             file_row + Len(lines) - 1, PyFrom(row.content, file_col),
             Len(lines[Len(lines)]) + (IF Len(lines) = 1 THEN file_col ELSE 0))

\* paste_clipboard()
paste_clipboard(E) ==
  IF Len(E.clipboard) = 0 THEN set_status_message(E, Msg("Clipboard empty"))
  ELSE paste_lines(IF FileRow(E) >= E.total_rows
                   THEN insert_editor_row(save_undo_state(E), E.total_rows, << >>)
                   ELSE save_undo_state(E),
                   Split(E.clipboard, NL), FileRow(E))

-----------------------------------------------------------------------------
(* Rendering, files, the key loop *)

\* refresh_screen(): the frame is written to the terminal and the editor state is
\* left alone; what is kept here is whether composing the frame raises
refresh_screen(E) ==
  IF ~Ok(E) THEN E
  ELSE LET file_row == FileRow(E)
           p == PyIndex(Len(E.rows), file_row)
       IN  IF \E y \in 0..(E.screen_rows - 1) :
                 E.row_offset + y < E.total_rows /\ PyIndex(Len(E.rows), E.row_offset + y) = 0
           THEN Raise(E, "IndexError")
           ELSE IF file_row < E.total_rows
                   /\ (p = 0 \/ get_content_col(E.rows[p], E.col_offset + E.cursor_x) = RAISES)
           THEN Raise(E, "IndexError")
           ELSE E

RECURSIVE Universal(_)
\* text-mode reading: "\r\n" and a lone "\r" are read as "\n"
Universal(text) ==
  IF Len(text) = 0 THEN << >>
  ELSE IF text[1] = "\r"
       THEN << NL >> \o Universal(IF Len(text) > 1 /\ text[2] = NL
                                   THEN SubSeq(text, 3, Len(text)) ELSE Tail(text))
       ELSE << text[1] >> \o Universal(Tail(text))

RECURSIVE rstrip(_, _)
\* line.rstrip(chars)
rstrip(line, chars) ==
  IF Len(line) > 0 /\ line[Len(line)] \in chars
  THEN rstrip(SubSeq(line, 1, Len(line) - 1), chars) ELSE line

\* for line in f: line.rstrip('\r\n')
file_lines(text) ==
  LET parts == Split(Universal(text), NL)
      whole == IF Len(parts[Len(parts)]) = 0 THEN SubSeq(parts, 1, Len(parts) - 1) ELSE parts
  IN  [k \in 1..Len(whole) |-> rstrip(whole[k], {"\r", NL})]

\* E = EditorState(), with the screen size update_screen_size() finds
EditorState(sr, sc) ==
  [ cursor_x |-> 0, cursor_y |-> 0, row_offset |-> 0, col_offset |-> 0,
    screen_rows |-> sr, screen_cols |-> sc, total_rows |-> 0, rows |-> << >>,
    modified |-> 0, file_name |-> None, status_message |-> << >>,
    current_syntax |-> None, undo_stack |-> << >>, redo_stack |-> << >>,
    mark_x |-> None, mark_y |-> None, clipboard |-> << >>,
    error |-> "none", det |-> << >> ]

\* The files: a function from the names that exist to what is there, a regular
\* file with its text or a directory.
NoFiles == [n \in {} |-> [dir |-> FALSE, text |-> << >>]]

\* the file name holds text
Write(d, name, text) ==
  [n \in DOMAIN d \cup {name} |->
     IF n = name THEN [dir |-> FALSE, text |-> text] ELSE d[n]]

\* the files when the only one is name with this text (none for None)
OnDisk(name, text) == IF text = None THEN NoFiles ELSE Write(NoFiles, name, Val(text))

\* name is a directory: open(name) raises IsADirectoryError
IsDirectory(d, name) == name \in DOMAIN d /\ d[name].dir

\* what open(name, 'r') reads: the text, None for FileNotFoundError
ReadFile(d, name) == IF name \in DOMAIN d THEN Some(d[name].text) ELSE None

\* open_file_terminal: E.modified = 0 and the status message, or the message of
\* the exception caught while the rows were read
opened(E, fname) ==
  IF ~Ok(E)
  THEN \* except Exception as e
       set_status_message([E EXCEPT !.error = "none"], << "Error opening file: ", E.error >>)
  ELSE set_status_message([E EXCEPT !.modified = 0], << "Opened ", fname >>)

\* open_file_terminal without E.current_syntax = select_syntax_highlight(file_name) of line 653
cleared_keeps_syntax(E, fname) ==
  [E EXCEPT !.file_name = Some(fname),
            !.rows = << >>, !.total_rows = 0, !.modified = 0,
            !.cursor_x = 0, !.cursor_y = 0, !.row_offset = 0, !.col_offset = 0]

\* the state open_file_terminal reads the file into
cleared(E, fname) ==
  [E EXCEPT !.file_name = Some(fname),
            !.current_syntax = select_syntax_highlight(Some(fname)),
            !.rows = << >>, !.total_rows = 0, !.modified = 0,
            !.cursor_x = 0, !.cursor_y = 0, !.row_offset = 0, !.col_offset = 0]

\* open_file_terminal(file_name) for a name given on the command line while nothing
\* is modified; text is the file's content, None when there is no such file
open_file_terminal(E, fname, text) ==
  opened(IF text = None
         THEN set_status_message(cleared(E, fname),
                                 << "File ", fname, " not found. Created new file." >>)
         ELSE load_rows(cleared(E, fname), file_lines(Val(text))),
         fname)

HELP == "Help: Ctrl-S = Save | Ctrl-A = Save As | Ctrl-O = Open | Ctrl-Z = Undo | Ctrl-R = Redo | Ctrl-B = Mark | Ctrl-C = Copy | Ctrl-X = Cut | Ctrl-V = Paste | Ctrl-Q = Quit"

\* __main__ up to the first frame of terminal_process_keypress
startup(sr, sc, fname, text) ==
  refresh_screen(set_status_message(open_file_terminal(EditorState(sr, sc), fname, text),
                                    Msg(HELP)))

\* the command terminal_process_keypress runs for the key k
dispatch(E, k) ==
  IF k = ENTER THEN insert_newline(E)
  ELSE IF k = CTRL_Z THEN undo(E)
  ELSE IF k = CTRL_R THEN redo(E)
  ELSE IF k = CTRL_B THEN set_mark(E)
  ELSE IF k = CTRL_C THEN copy_selection(E)
  ELSE IF k = CTRL_X THEN cut_selection(E)
  ELSE IF k = CTRL_V THEN paste_clipboard(E)
  ELSE IF k = BACKSPACE \/ k = CTRL_H \/ k = DEL_KEY THEN delete_char(E)
  ELSE IF k \in {ARROW_UP, ARROW_DOWN, ARROW_LEFT, ARROW_RIGHT} THEN move_cursor(E, k)
  ELSE IF k = PAGE_UP \/ k = PAGE_DOWN
       THEN move_cursor_times(E, IF k = PAGE_UP THEN ARROW_UP ELSE ARROW_DOWN, E.screen_rows)
  ELSE IF k \notin {ESC, CTRL_L} /\ k < 1000 /\ k >= 32 THEN insert_char(E, chr(k))
  ELSE E

\* one turn of the loop: the command for k, then the next frame
process_key(E, k) == refresh_screen(dispatch(E, k))

\* handle_resize, with the screen size update_screen_size() finds
handle_resize(E, sr, sc) ==
  refresh_screen([E EXCEPT !.screen_rows = sr, !.screen_cols = sc,
                           !.cursor_y = IF @ > sr - 1 THEN sr - 1 ELSE @,
                           !.cursor_x = IF @ > sc - 1 THEN sc - 1 ELSE @])

-----------------------------------------------------------------------------
(* Prompts, open and save from the key loop.  Here E has the field `disk`.   *)

\* _prompt_user_cli: input_str after the key k
prompt_edit(input_str, k) ==
  IF k \in {BACKSPACE, CTRL_H, DEL_KEY}
  THEN IF Len(input_str) > 0 THEN SubSeq(input_str, 1, Len(input_str) - 1) ELSE input_str
  ELSE IF k \notin {CTRL_L, ENTER, ESC} /\ 32 <= k /\ k <= 126
       THEN Append(input_str, chr(k))
       ELSE input_str

RECURSIVE prompt_loop(_, _, _, _, _), prompt_read(_, _, _, _, _)
\* _prompt_user_cli from the top of its loop, for the keys typed and the key
\* last (ENTER or ESC) that ends the prompt: the state and the returned string
prompt_loop(E, prompt_text, input_str, typed, last) ==
  prompt_read(refresh_screen(set_status_message(E, << prompt_text, input_str,
                                                      " (ESC to cancel)" >>)),
              prompt_text, input_str, typed, last)

\* _prompt_user_cli from key = read_key() on
prompt_read(E, prompt_text, input_str, typed, last) ==
  IF ~Ok(E) THEN [E |-> E, result |-> None]
  ELSE IF Len(typed) > 0
  THEN prompt_loop(E, prompt_text, prompt_edit(input_str, typed[1]), Tail(typed), last)
  ELSE IF last = ENTER
  THEN [E |-> set_status_message(E, Msg("")), result |-> Some(input_str)]
  ELSE [E |-> set_status_message(E, Msg("")), result |-> None]

\* _prompt_user_cli(prompt_text, default)
prompt_user_cli(E, prompt_text, default, answer) ==
  prompt_loop(E, prompt_text, default, answer.typed, answer.last)

\* open_file_terminal from E.file_name = file_name on
open_read(E, fname) ==
  IF IsDirectory(E.disk, fname)
  THEN set_status_message(cleared(E, fname),
                          << "Error opening file: ", "[Errno 21] Is a directory: '", fname, "'" >>)
  ELSE open_file_terminal(E, fname, ReadFile(E.disk, fname))

\* open_file_terminal with the fields reset (lines 652-658) before the answer
\* about the unsaved changes is looked at
open_discard_after_reset(P, fname) ==
  IF ~Ok(P.E) THEN P.E
  ELSE IF P.result = None \/ Val(P.result) \notin { << "y" >>, << "Y" >> }
  THEN set_status_message(cleared(P.E, fname), Msg("Open canceled"))
  ELSE open_read(P.E, fname)

\* open_file_terminal after the prompt P for discarding the changes
open_discard(P, fname) ==
  IF ~Ok(P.E) THEN P.E
  ELSE IF P.result = None \/ Val(P.result) \notin { << "y" >>, << "Y" >> }
  THEN set_status_message(P.E, Msg("Open canceled"))
  ELSE open_read(P.E, fname)

\* open_file_terminal after the prompt P for the file name
open_named(P, discard) ==
  IF ~Ok(P.E) THEN P.E
  ELSE IF P.result = None \/ Len(Val(P.result)) = 0
  THEN set_status_message(P.E, Msg("Open canceled"))
  ELSE IF P.E.modified # 0
  THEN open_discard(prompt_user_cli(P.E, "Unsaved changes. Discard? (y/n) ", << >>, discard),
                    Val(P.result))
  ELSE open_read(P.E, Val(P.result))

\* open_file_terminal() for CTRL_O: name answers the prompt for the file name,
\* discard the prompt about unsaved changes
open_file_prompted(E, name, discard) ==
  open_named(prompt_user_cli(E, "Open file: ", << >>, name), discard)

RECURSIVE update_syntax_rows(_, _)
\* for row in E.rows: row.update_syntax(), from place p
update_syntax_rows(E, p) ==
  IF ~Ok(E) \/ p > Len(E.rows) THEN E
  ELSE update_syntax_rows(update_syntax(E, p, RecursionFuel(E)), p + 1)

\* save_file_terminal: except Exception as e, around the rows' update_syntax
save_caught(E) ==
  IF Ok(E) THEN E
  ELSE set_status_message([E EXCEPT !.error = "none"], << "Error saving file: ", E.error >>)

\* save_file_terminal from the try statement on
save_content(E, content) ==
  IF IsDirectory(E.disk, Val(E.file_name))
  THEN set_status_message(E, << "Error saving file: ", "[Errno 21] Is a directory: '",
                                Val(E.file_name), "'" >>)
  ELSE save_caught(update_syntax_rows(
         set_status_message([E EXCEPT !.disk = Write(@, Val(E.file_name), content),
                                      !.modified = 0],
                            << ToString(Len(content)), " bytes saved to ", Val(E.file_name) >>),
         1))

\* save_file_terminal from the second test of E.file_name on
save_write(E) ==
  IF E.file_name = None \/ E.file_name = Some(<< >>)
  THEN set_status_message(E, Msg("Save canceled"))
  ELSE save_content(E, rstrip(rows_to_string(E), {NL}))

\* save_file_terminal after the prompt P for the name
save_named(P) ==
  IF ~Ok(P.E) THEN P.E
  ELSE IF P.result = None \/ Len(Val(P.result)) = 0
  THEN set_status_message(P.E, Msg("Save canceled"))
  ELSE save_write([P.E EXCEPT !.file_name = P.result,
                              !.current_syntax = select_syntax_highlight(P.result)])

\* "untitled.txt"
UNTITLED == << "u", "n", "t", "i", "t", "l", "e", "d", ".", "t", "x", "t" >>

\* save_file_terminal(save_as); name answers the prompt for the name
save_file_terminal(E, save_as, name) ==
  IF save_as \/ E.file_name = None \/ E.file_name = Some(<< >>)
  THEN save_named(prompt_user_cli(E, "Save as: ",
                                  IF E.file_name = None \/ E.file_name = Some(<< >>)
                                  THEN UNTITLED ELSE Val(E.file_name),
                                  name))
  ELSE save_write(E)

-----------------------------------------------------------------------------
(* The loop of terminal_process_keypress with its local quit_times.  Here E  *)
(* has the fields `disk` and `quit_times`.                                   *)

\* quit_times = 3
QUIT_TIMES == 3

\* the process is in read_key(), called by the loop of terminal_process_keypress
AtRead == [at |-> "read"]

\* the process is in read_key(), after the byte ESC, at seq = os.read(fd, 5)
AtSeq == [at |-> "seq"]

\* the terminal's input: the bytes that wait to be read (queue) and the bytes the
\* keys pressed will still send (ahead)
NoInput == [queue |-> << >>, ahead |-> << >>]

\* os.read(fd, n) in raw mode with VMIN = 0: the first n waiting bytes, fewer when
\* fewer wait, none when the read times out
os_read(queue, n) == SubSeq(queue, 1, Min(n, Len(queue)))

\* the bytes os.read(fd, n) leaves in the queue
after_read(queue, n) == SubSeq(queue, Min(n, Len(queue)) + 1, Len(queue))

\* read_key: ESC [ seq2 for a seq2 that is no digit
bracket_key(seq2) ==
  IF seq2 = ord("A") THEN ARROW_UP
  ELSE IF seq2 = ord("B") THEN ARROW_DOWN
  ELSE IF seq2 = ord("C") THEN ARROW_RIGHT
  ELSE IF seq2 = ord("D") THEN ARROW_LEFT
  ELSE IF seq2 = ord("H") THEN HOME_KEY
  ELSE IF seq2 = ord("F") THEN END_KEY
  ELSE ESC

\* read_key taking every digit before ~ for the digit of Delete
tilde_key_any_digit(seq) ==
  IF Len(seq) < 3 THEN ESC ELSE IF seq[3] = ord("~") THEN DEL_KEY ELSE ESC

\* read_key: ESC [ seq2 ... for a digit seq2
tilde_key(seq) ==
  IF Len(seq) < 3 THEN ESC
  ELSE IF seq[3] = ord("~")
       THEN IF seq[2] = ord("3") THEN DEL_KEY
            ELSE IF seq[2] = ord("5") THEN PAGE_UP
            ELSE IF seq[2] = ord("6") THEN PAGE_DOWN
            ELSE ESC
       ELSE ESC

\* read_key after seq = os.read(fd, 5): the key for the bytes that followed ESC
escape_key(seq) ==
  IF Len(seq) < 2 THEN ESC
  ELSE IF seq[1] = ord("[")
       THEN IF ord("0") <= seq[2] /\ seq[2] <= ord("9") THEN tilde_key(seq)
            ELSE bracket_key(seq[2])
  ELSE IF seq[1] = ord("O")
       THEN IF seq[2] = ord("H") THEN HOME_KEY
            ELSE IF seq[2] = ord("F") THEN END_KEY
            ELSE ESC
  ELSE ESC

\* read_key after ch = os.read(fd, 1) for a byte that is not ESC, or for no byte
byte_key(ch) == IF Len(ch) = 0 THEN ESC ELSE ch[1]

WARNING == "Warning: Unsaved changes. Hold Ctrl-Q to to quit."

\* CTRL_Q without quit_times -= 1 of line 999
quit_key_no_countdown(E) ==
  IF E.modified # 0 /\ E.quit_times > 0
  THEN set_status_message(E, Msg(WARNING))
  ELSE Raise(E, "SystemExit")

\* the branch of CTRL_Q: a warning and `continue`, or sys.exit(0)
quit_key(E) ==
  IF E.modified # 0 /\ E.quit_times > 0
  THEN [set_status_message(E, Msg(WARNING)) EXCEPT !.quit_times = @ - 1]
  ELSE Raise(E, "SystemExit")

\* the end of a turn of the loop after the command of another key than CTRL_Q
turn_done(E) == IF ~Ok(E) THEN E ELSE [E EXCEPT !.quit_times = QUIT_TIMES]

\* one turn of the loop for the key k, CTRL_S among the keys, and the next frame
keypress(E, k) ==
  IF k = CTRL_Q THEN refresh_screen(quit_key(E))
  ELSE IF k = CTRL_S
       THEN refresh_screen(turn_done(save_file_terminal(E, FALSE, [typed |-> << >>, last |-> ESC])))
       ELSE refresh_screen(turn_done(dispatch(E, k)))

-----------------------------------------------------------------------------
(* The state machine *)

\* the editor state as the record the operators work on
St ==
  [ cursor_x |-> cursor_x, cursor_y |-> cursor_y, row_offset |-> row_offset,
    col_offset |-> col_offset, screen_rows |-> screen_rows, screen_cols |-> screen_cols,
    total_rows |-> total_rows, rows |-> rows, modified |-> modified,
    file_name |-> file_name, status_message |-> status_message,
    current_syntax |-> current_syntax, undo_stack |-> undo_stack,
    redo_stack |-> redo_stack, mark_x |-> mark_x, mark_y |-> mark_y,
    clipboard |-> clipboard, error |-> error, det |-> << >> ]

\* the editor state becomes E
Becomes(E) ==
  /\ cursor_x' = E.cursor_x /\ cursor_y' = E.cursor_y
  /\ row_offset' = E.row_offset /\ col_offset' = E.col_offset
  /\ screen_rows' = E.screen_rows /\ screen_cols' = E.screen_cols
  /\ total_rows' = E.total_rows /\ rows' = E.rows
  /\ modified' = E.modified /\ file_name' = E.file_name
  /\ status_message' = E.status_message /\ current_syntax' = E.current_syntax
  /\ undo_stack' = E.undo_stack /\ redo_stack' = E.redo_stack
  /\ mark_x' = E.mark_x /\ mark_y' = E.mark_y /\ clipboard' = E.clipboard
  /\ error' = E.error

\* bounds of the model
MaxKeys == 4

\* the terminal sizes (screen_rows, screen_cols) the model draws from
ScreenSizes == { << 2, 4 >>, << 3, 10 >> }

\* the files the editor is started on: a name and the file's text, None when the
\* file does not exist
StartFiles ==
  { << <<"t", ".", "c">>, None >>,
    << <<"t", ".", "c">>, Some(<<"/", "/", NL, "/", "*", NL, "b", NL>>) >>,
    << <<"t", ".", "c">>, Some(<<TAB, NL, "b", NL>>) >>,
    << <<"t">>, Some(<<"a", "b", NL>>) >> }

\* start files with block comments
CommentFiles ==
  { << <<"t", ".", "c">>, Some(<<"/", "*", "/", NL, "a", NL>>) >>,
    << <<"t", ".", "c">>, Some(<<"/", "*", NL, NL, "b", NL>>) >>,
    << <<"t", ".", "c">>, Some(<<"/", "*", "*", NL, "a", NL, "b">>) >> }

\* the printable keys the model types
TypedKeys == { ord("/"), ord("a") }

EditKeys == TypedKeys \cup { ENTER, BACKSPACE, CTRL_X, CTRL_V }
MoveKeys == { ARROW_LEFT, ARROW_RIGHT, ARROW_UP, ARROW_DOWN, PAGE_UP, PAGE_DOWN }
Keys == EditKeys \cup MoveKeys \cup { CTRL_B, CTRL_C, CTRL_Z, CTRL_R }

TrkIdle == [ phase |-> "idle", hist |-> << >>, undone |-> 0, redone |-> 0 ]

\* the state before the first key, for a start file, a terminal size and the bytes
\* the terminal will send
StartedWith(files, sizes, inputs) ==
  \E size \in sizes, f \in files :
    LET E == startup(size[1], size[2], f[1], f[2])
    IN  /\ cursor_x = E.cursor_x /\ cursor_y = E.cursor_y
        /\ row_offset = E.row_offset /\ col_offset = E.col_offset
        /\ screen_rows = E.screen_rows /\ screen_cols = E.screen_cols
        /\ total_rows = E.total_rows /\ rows = E.rows
        /\ modified = E.modified /\ file_name = E.file_name
        /\ status_message = E.status_message /\ current_syntax = E.current_syntax
        /\ undo_stack = E.undo_stack /\ redo_stack = E.redo_stack
        /\ mark_x = E.mark_x /\ mark_y = E.mark_y /\ clipboard = E.clipboard
        /\ error = E.error
        /\ disk = OnDisk(f[1], f[2])
        /\ filename = f[1]
        /\ quit_times = QUIT_TIMES
        /\ raw_mode = TRUE
        /\ pc = AtRead
        /\ stdin \in inputs
        /\ key = None
        /\ nkeys = 0

\* the state before the first key, with no byte sent yet
Started(files, sizes) == StartedWith(files, sizes, { NoInput })

Init == Started(StartFiles, ScreenSizes) /\ trk = TrkIdle

\* the loop reads the key k and runs its command
KeyStep(k) ==
  /\ error = "none"
  /\ nkeys < MaxKeys
  /\ Becomes(process_key(St, k))
  /\ key' = Some(k)
  /\ nkeys' = nkeys + 1
  /\ UNCHANGED << trk, disk, filename, quit_times, raw_mode, pc, stdin >>

TypeChar == \E k \in TypedKeys : KeyStep(k)
Enter == KeyStep(ENTER)
Backspace == KeyStep(BACKSPACE)
Move == \E k \in MoveKeys : KeyStep(k)
SetMark == KeyStep(CTRL_B)
Copy == KeyStep(CTRL_C)
Cut == KeyStep(CTRL_X)
Paste == KeyStep(CTRL_V)
Undo == KeyStep(CTRL_Z)
Redo == KeyStep(CTRL_R)

\* SIGWINCH while the loop waits for a key
Resize ==
  /\ error = "none"
  /\ nkeys < MaxKeys
  /\ \E size \in ScreenSizes :
       /\ << screen_rows, screen_cols >> # size
       /\ Becomes(handle_resize(St, size[1], size[2]))
  /\ UNCHANGED << key, nkeys, trk, disk, filename, quit_times, raw_mode, pc, stdin >>

Next ==
  \/ TypeChar \/ Enter \/ Backspace \/ Move
  \/ SetMark \/ Copy \/ Cut \/ Paste \/ Undo \/ Redo
  \/ Resize

Spec == Init /\ [][Next]_vars

\* the same loop started on the files with block comments
InitComment == Started(CommentFiles, ScreenSizes) /\ trk = TrkIdle
SpecComment == InitComment /\ [][Next]_vars


-----------------------------------------------------------------------------
(* Edit / undo / redo sequences.  trk observes a run of edit commands, the   *)
(* undo calls that follow it and the redo calls after those: hist[1] is what *)
(* undo restores of the state before the first edit, hist[i + 1] of the      *)
(* state after the i-th edit.                                                *)

\* what a snapshot is meant to bring back: row contents, cursor and offsets
View(E) ==
  << [k \in 1..Len(E.rows) |-> E.rows[k].content],
     E.cursor_x, E.cursor_y, E.col_offset, E.row_offset >>

\* the key k is an edit command that reaches save_undo_state in state E
IsEdit(E, k) ==
  \/ k \in TypedKeys \cup { ENTER, BACKSPACE }
  \/ k = CTRL_V /\ Len(E.clipboard) > 0
  \/ k = CTRL_X /\ Ok(copy_selection(E)) /\ Len(copy_selection(E).clipboard) > 0

\* a key step the observer follows with trk becoming t
Tracked(k, t) ==
  /\ error = "none"
  /\ Becomes(process_key(St, k))
  /\ key' = Some(k)
  /\ nkeys' = Min(nkeys + 1, MaxKeys)
  /\ trk' = t
  /\ UNCHANGED << disk, filename, quit_times, raw_mode, pc, stdin >>

\* bounds of the sequences
MaxPrefix == 2
MaxSeq == 2

\* any key before the observed sequence starts
SymPrefix ==
  /\ trk.phase = "idle"
  /\ nkeys < MaxPrefix
  /\ \E k \in Keys : Tracked(k, trk)

\* the observed sequence starts here
SymBegin ==
  /\ trk.phase = "idle"
  /\ error = "none"
  /\ trk' = [trk EXCEPT !.phase = "edit", !.hist = << View(St) >>]
  /\ UNCHANGED << cursor_x, cursor_y, row_offset, col_offset, screen_rows, screen_cols,
                  total_rows, rows, modified, file_name, status_message, current_syntax,
                  undo_stack, redo_stack, mark_x, mark_y, clipboard, disk, filename, quit_times, raw_mode, pc, stdin,
                  key, error,
                  nkeys >>

SymEdit ==
  /\ trk.phase = "edit"
  /\ Len(trk.hist) <= MaxSeq
  /\ \E k \in EditKeys :
       /\ IsEdit(St, k)
       /\ Tracked(k, [trk EXCEPT !.hist = Append(@, View(process_key(St, k)))])

SymUndo ==
  /\ trk.phase \in {"edit", "undo"}
  /\ trk.undone < Len(trk.hist) - 1
  /\ Tracked(CTRL_Z, [trk EXCEPT !.phase = "undo", !.undone = @ + 1])

SymRedo ==
  /\ trk.phase \in {"undo", "redo"}
  /\ trk.undone = Len(trk.hist) - 1
  /\ trk.redone < Len(trk.hist) - 1
  /\ Tracked(CTRL_R, [trk EXCEPT !.phase = "redo", !.redone = @ + 1])

NextSym == SymPrefix \/ SymBegin \/ SymEdit \/ SymUndo \/ SymRedo

SpecSym == Init /\ [][NextSym]_vars

\* the longest run of edits the observer follows when the undo stack is filled
MaxEdits == 60

\* one terminal, a new file
InitBound ==
  /\ Started({ << <<"t", ".", "c">>, None >> }, { << 3, 10 >> })
  /\ trk = [TrkIdle EXCEPT !.phase = "edit", !.hist = << View(St) >>]

\* an edit observed while the run of edits lasts
BoundEdit(k) ==
  Tracked(k, IF trk.phase = "edit" /\ Len(trk.hist) <= MaxEdits
             THEN [trk EXCEPT !.hist = Append(@, View(process_key(St, k)))]
             ELSE TrkIdle)

\* type a character into the empty document or line
BoundType ==
  /\ IF total_rows = 0 THEN TRUE ELSE Len(rows[1].content) = 0
  /\ BoundEdit(ord("a"))

\* and delete it again
BoundBackspace ==
  /\ IF total_rows = 0 THEN FALSE ELSE Len(rows[1].content) > 0
  /\ BoundEdit(BACKSPACE)

\* undo, also with nothing left to undo (at most twice in a row when observed)
BoundUndo ==
  /\ IF trk.phase = "idle" THEN TRUE
     ELSE trk.undone < Min(Len(trk.hist) - 1, UNDO_LIMIT) + 2
  /\ Tracked(CTRL_Z,
             IF trk.phase \in {"edit", "undo"}
             THEN [trk EXCEPT !.phase = "undo", !.undone = @ + 1]
             ELSE TrkIdle)

BoundRedo == Tracked(CTRL_R, TrkIdle)

NextBound == BoundType \/ BoundBackspace \/ BoundUndo \/ BoundRedo

SpecBound == InitBound /\ [][NextBound]_vars

-----------------------------------------------------------------------------
(* Open and save.  The loop with the keys CTRL_S, CTRL_A and CTRL_O and a    *)
(* few edits, on a disk with files and a directory.                          *)

\* the editor state with the files
FileSt == St @@ [disk |-> disk]

\* a directory on the disk
Directory == [dir |-> TRUE, text |-> << >>]

\* the disk the editor is started on: t.c ends with an empty line, u has no
\* final newline, d is a directory
StartDisk ==
  [n \in { <<"t", ".", "c">>, <<"u">>, <<"d">> } |->
     IF n = <<"d">> THEN Directory
     ELSE IF n = <<"u">> THEN [dir |-> FALSE, text |-> <<"b">>]
     ELSE [dir |-> FALSE, text |-> <<"a", NL, NL>>]]

\* the names the editor is started with
StartNames == { <<"t", ".", "c">>, <<"u">>, <<"n", ".", "p", "y">> }

\* answers to the prompts for a name: the keys typed and the key that ends the prompt
NameAnswers ==
  { [typed |-> << >>, last |-> ENTER],
    [typed |-> << >>, last |-> ESC],
    [typed |-> << BACKSPACE, BACKSPACE, BACKSPACE, BACKSPACE, ord("d") >>, last |-> ENTER],
    [typed |-> << BACKSPACE, BACKSPACE, BACKSPACE, BACKSPACE, ord("u") >>, last |-> ENTER],
    [typed |-> << ord("x") >>, last |-> ENTER] }

\* answers to the prompt about unsaved changes
DiscardAnswers ==
  { [typed |-> << ord("y") >>, last |-> ENTER],
    [typed |-> << ord("n") >>, last |-> ENTER],
    [typed |-> << ord("y") >>, last |-> ESC] }

InitFiles ==
  /\ \E name \in StartNames :
       LET E == startup(3, 10, name, ReadFile(StartDisk, name))
       IN  /\ filename = name
           /\ quit_times = QUIT_TIMES /\ raw_mode = TRUE /\ pc = AtRead
           /\ stdin = NoInput
           /\ cursor_x = E.cursor_x /\ cursor_y = E.cursor_y
           /\ row_offset = E.row_offset /\ col_offset = E.col_offset
           /\ screen_rows = E.screen_rows /\ screen_cols = E.screen_cols
           /\ total_rows = E.total_rows /\ rows = E.rows
           /\ modified = E.modified /\ file_name = E.file_name
           /\ status_message = E.status_message /\ current_syntax = E.current_syntax
           /\ undo_stack = E.undo_stack /\ redo_stack = E.redo_stack
           /\ mark_x = E.mark_x /\ mark_y = E.mark_y /\ clipboard = E.clipboard
           /\ error = E.error
  /\ disk = StartDisk
  /\ key = None
  /\ nkeys = 0
  /\ trk = TrkIdle

\* the loop reads the key k, whose command leaves the editor and the files as in
\* E, and composes the next frame
FileStep(k, E) ==
  /\ error = "none"
  /\ nkeys < MaxKeys
  /\ Becomes(refresh_screen(E))
  /\ disk' = E.disk
  /\ key' = Some(k)
  /\ nkeys' = nkeys + 1
  /\ UNCHANGED << trk, filename, quit_times, raw_mode, pc, stdin >>

FileEdit == \E k \in { ord("a"), ENTER, BACKSPACE } : KeyStep(k)
Save == \E name \in NameAnswers : FileStep(CTRL_S, save_file_terminal(FileSt, FALSE, name))
SaveAs == \E name \in NameAnswers : FileStep(CTRL_A, save_file_terminal(FileSt, TRUE, name))
Open ==
  \E name \in NameAnswers, discard \in DiscardAnswers :
    FileStep(CTRL_O, open_file_prompted(FileSt, name, discard))

NextFiles == FileEdit \/ Save \/ SaveAs \/ Open

SpecFiles == InitFiles /\ [][NextFiles]_vars

-----------------------------------------------------------------------------
(* A new file.  The editor is started on a name that no file has, and the    *)
(* keys of a script are typed.                                               *)

\* the names the editor is started with; none of them is a file
NewFiles ==
  { << <<"n", "e", "w", ".", "p", "y">>, None >>,
    << <<"a", ".", "p", "y">>, None >>,
    << <<"x", ".", "c">>, None >>,
    << <<"n">>, None >> }

NewSizes == ScreenSizes \cup { << 24, 80 >> }

\* d, e, f, space, f, (, ), :, Enter
NewScript ==
  << ord("d"), ord("e"), ord("f"), ord(" "), ord("f"), ord("("), ord(")"), ord(":"), ENTER >>

InitNew == Started(NewFiles, NewSizes) /\ trk = TrkIdle

\* the loop reads the next key of the script and runs its command
ScriptStep ==
  /\ error = "none"
  /\ nkeys < Len(NewScript)
  /\ Becomes(process_key(St, NewScript[nkeys + 1]))
  /\ key' = Some(NewScript[nkeys + 1])
  /\ nkeys' = nkeys + 1
  /\ UNCHANGED << trk, disk, filename, quit_times, raw_mode, pc, stdin >>

NextNew == ScriptStep

SpecNew == InitNew /\ [][NextNew]_vars

-----------------------------------------------------------------------------
(* Scrolling.  Longer runs of the keys that move over the rows and of the    *)
(* keys that insert and remove rows.                                         *)

MaxScroll == 5

\* the keys read: moves over the rows, and the keys that insert and remove rows
ScrollKeys == { PAGE_DOWN, PAGE_UP, ARROW_UP, ARROW_LEFT, ENTER, BACKSPACE }

\* the loop reads a key and runs its command
ScrollStep ==
  /\ error = "none"
  /\ nkeys < MaxScroll
  /\ \E k \in ScrollKeys :
       /\ Becomes(process_key(St, k))
       /\ key' = Some(k)
  /\ nkeys' = nkeys + 1
  /\ UNCHANGED << trk, disk, filename, quit_times, raw_mode, pc, stdin >>

NextScroll == ScrollStep

SpecScroll == Init /\ [][NextScroll]_vars

-----------------------------------------------------------------------------
(* Clipboard.  Longer runs of the keys that copy and paste, move along a row *)
(* and delete before the cursor.                                             *)

MaxClip == 5

\* the keys read: mark, copy, paste, the moves along the row, backspace
ClipKeys == { CTRL_B, CTRL_C, CTRL_V, ARROW_RIGHT, ARROW_LEFT, BACKSPACE }

\* the loop reads a key and runs its command
ClipStep ==
  /\ error = "none"
  /\ nkeys < MaxClip
  /\ \E k \in ClipKeys :
       /\ Becomes(process_key(St, k))
       /\ key' = Some(k)
  /\ nkeys' = nkeys + 1
  /\ UNCHANGED << trk, disk, filename, quit_times, raw_mode, pc, stdin >>

NextClip == ClipStep

SpecClip == Init /\ [][NextClip]_vars

-----------------------------------------------------------------------------
(* Quitting.  The loop with CTRL_Q, the ESC of a read that timed out, CTRL_S *)
(* and keys that edit and move; trk holds the keys read so far.              *)

MaxQuit == 7

\* the files the editor is started on: none, and a file of one row
QuitFiles ==
  { << <<"t", ".", "c">>, None >>,
    << <<"t">>, Some(<<"a", "b", NL>>) >> }

\* the editor state with the files and the loop's quit_times
QuitSt == FileSt @@ [quit_times |-> quit_times]

InitQuit == Started(QuitFiles, { << 3, 10 >> }) /\ trk = << >>

\* the loop reads the key k, runs its command and composes the next frame
QuitStep(k) ==
  /\ error = "none"
  /\ nkeys < MaxQuit
  /\ Becomes(keypress(QuitSt, k))
  /\ disk' = keypress(QuitSt, k).disk
  /\ quit_times' = keypress(QuitSt, k).quit_times
  /\ key' = Some(k)
  /\ nkeys' = nkeys + 1
  /\ trk' = Append(trk, k)
  /\ UNCHANGED << filename, raw_mode, pc, stdin >>

Quit == QuitStep(CTRL_Q)
\* os.read returned no byte within the timeout: read_key returns ESC
ReadTimeout == QuitStep(ESC)
QuitSave == QuitStep(CTRL_S)
QuitEdit == \E k \in { ord("a"), ARROW_RIGHT } : QuitStep(k)

NextQuit == Quit \/ ReadTimeout \/ QuitSave \/ QuitEdit

SpecQuit == InitQuit /\ [][NextQuit]_vars

-----------------------------------------------------------------------------
(* Resizing.  SIGWINCH is handled by a Python-level handler, which the       *)
(* interpreter runs in the main thread between two bytecode instructions:    *)
(* during the read of a key, and also inside a command.  PAGE_UP and         *)
(* PAGE_DOWN are followed through their loop of move_cursor calls.           *)

\* the process is in the loop of lines 1028-1030, with times calls still to make
AtPage(direction, times) == [at |-> "page", direction |-> direction, times |-> times]

\* read_key returns PAGE_UP or PAGE_DOWN: times = E.screen_rows and the direction
PageBegin ==
  /\ error = "none"
  /\ pc = AtRead
  /\ nkeys < MaxKeys
  /\ \E k \in { PAGE_UP, PAGE_DOWN } :
       /\ key' = Some(k)
       /\ pc' = AtPage(IF k = PAGE_UP THEN ARROW_UP ELSE ARROW_DOWN, screen_rows)
  /\ nkeys' = nkeys + 1
  /\ UNCHANGED << cursor_x, cursor_y, row_offset, col_offset, screen_rows, screen_cols,
                  total_rows, rows, modified, file_name, status_message, current_syntax,
                  undo_stack, redo_stack, mark_x, mark_y, clipboard, error,
                  disk, filename, quit_times, raw_mode, stdin, trk >>

\* one move_cursor(direction) and times -= 1; after the last one the loop composes
\* the next frame and reads a key
PageMove ==
  /\ error = "none"
  /\ pc # AtRead
  /\ IF pc.times > 1
     THEN /\ Becomes(move_cursor(St, pc.direction))
          /\ pc' = AtPage(pc.direction, pc.times - 1)
     ELSE /\ Becomes(refresh_screen(IF pc.times = 1 THEN move_cursor(St, pc.direction) ELSE St))
          /\ pc' = AtRead
  /\ UNCHANGED << key, nkeys, disk, filename, quit_times, raw_mode, stdin, trk >>

\* read_key returns another key, whose command runs to its end
OtherKey ==
  /\ pc = AtRead
  /\ \E k \in { ord("a"), ENTER, ARROW_DOWN, ARROW_RIGHT } : KeyStep(k)

\* SIGWINCH arrives: handle_resize runs at the place the process is at
ResizeSignal == Resize

NextResize == PageBegin \/ PageMove \/ OtherKey \/ ResizeSignal

SpecResize == Init /\ [][NextResize]_vars

-----------------------------------------------------------------------------
(* Startup.  The process from the first statement of __main__: the terminal  *)
(* is put into raw mode, the file is opened, the loop reads keys.            *)

\* the process is at enable_raw_mode() of line 1439
AtStart == [at |-> "start"]

\* the process is after enable_raw_mode(), at line 1440
AtMain == [at |-> "main"]

\* what enable_raw_mode meets: a terminal whose attributes are read and set, no
\* terminal (tcgetattr raises), a terminal whose attributes cannot be set
\* (tcsetattr raises), a system that is not posix
Terminals == { "tty", "not a tty", "tcsetattr fails", "not posix" }

InitStart ==
  /\ \E size \in ScreenSizes, f \in StartFiles :
       LET E == EditorState(size[1], size[2])
       IN  /\ disk = OnDisk(f[1], f[2])
           /\ filename = f[1]
           /\ cursor_x = E.cursor_x /\ cursor_y = E.cursor_y
           /\ row_offset = E.row_offset /\ col_offset = E.col_offset
           /\ screen_rows = E.screen_rows /\ screen_cols = E.screen_cols
           /\ total_rows = E.total_rows /\ rows = E.rows
           /\ modified = E.modified /\ file_name = E.file_name
           /\ status_message = E.status_message /\ current_syntax = E.current_syntax
           /\ undo_stack = E.undo_stack /\ redo_stack = E.redo_stack
           /\ mark_x = E.mark_x /\ mark_y = E.mark_y /\ clipboard = E.clipboard
           /\ error = E.error
  /\ quit_times = QUIT_TIMES
  /\ raw_mode = FALSE
  /\ pc = AtStart
  /\ stdin = NoInput
  /\ key = None
  /\ nkeys = 0
  /\ trk = TrkIdle

\* enable_raw_mode(), lines 194-219
EnableRawMode ==
  /\ error = "none"
  /\ pc = AtStart
  /\ \E terminal \in Terminals :
       IF terminal = "not posix"
       THEN \* the message and sys.exit(1)
            /\ error' = "SystemExit" /\ raw_mode' = FALSE /\ pc' = pc
       ELSE IF terminal = "not a tty"
       THEN \* except (termios.error, OSError, AttributeError): print and return
            /\ error' = error /\ raw_mode' = FALSE /\ pc' = AtMain
       ELSE IF terminal = "tcsetattr fails"
       THEN \* termios.error propagates out of __main__
            /\ error' = "termios.error" /\ raw_mode' = FALSE /\ pc' = pc
       ELSE /\ error' = error /\ raw_mode' = TRUE /\ pc' = AtMain
  /\ UNCHANGED << cursor_x, cursor_y, row_offset, col_offset, screen_rows, screen_cols,
                  total_rows, rows, modified, file_name, status_message, current_syntax,
                  undo_stack, redo_stack, mark_x, mark_y, clipboard,
                  disk, filename, quit_times, stdin, key, nkeys, trk >>

\* lines 1440-1445, up to the first read of a key
EnterLoop ==
  /\ error = "none"
  /\ pc = AtMain
  /\ Becomes(startup(screen_rows, screen_cols, filename, ReadFile(disk, filename)))
  /\ pc' = AtRead
  /\ UNCHANGED << disk, filename, quit_times, raw_mode, stdin, key, nkeys, trk >>

\* the loop reads a key and runs its command
LoopKey ==
  /\ pc = AtRead
  /\ \E k \in { ord("a"), ENTER, BACKSPACE, ARROW_DOWN } : KeyStep(k)

NextStart == EnableRawMode \/ EnterLoop \/ LoopKey

SpecStart == InitStart /\ [][NextStart]_vars

-----------------------------------------------------------------------------
(* Typing.  Rows typed from the characters that make comments, strings,      *)
(* numbers and keywords of C and of Python.                                  *)

MaxType == 5

\* the editor is started on a C file that does not exist, on a Python file that
\* does not exist, on a C file with a comment and on a C file with the keyword that
\* C_KEYWORDS lists twice
TypeFiles ==
  { << <<"t", ".", "c">>, None >>,
    << <<"t", ".", "p", "y">>, None >>,
    << <<"c", ".", "c">>,
       Some(<<"/", "/", " ", "i", "n", "t", NL>>) >>,
    << <<"a", ".", "c">>, Some(<<"a", "u", "t", "o", NL>>) >> }

\* the characters typed into a file of the language syn
TypeChars(syn) ==
  IF syn = select_syntax_highlight(Some(<<"t", ".", "p", "y">>))
  THEN { "#", "T", "r", "u", "e", " ", "1", "t" }
  ELSE { "/", "*", "\"", "i", "f", " ", "1", "\\" }

InitType == Started(TypeFiles, { << 3, 10 >> }) /\ trk = TrkIdle

\* the loop reads a character and inserts it
TypeStep ==
  /\ error = "none"
  /\ nkeys < MaxType
  /\ \E c \in TypeChars(current_syntax) :
       /\ Becomes(process_key(St, ord(c)))
       /\ key' = Some(ord(c))
  /\ nkeys' = nkeys + 1
  /\ UNCHANGED << trk, disk, filename, quit_times, raw_mode, pc, stdin >>

NextType == TypeStep

SpecType == InitType /\ [][NextType]_vars

-----------------------------------------------------------------------------
(* Keys from bytes.  The terminal sends the bytes of the keys pressed, in     *)
(* pieces; read_key reads one byte, and after ESC up to five more.            *)

MaxReads == 5

\* the bytes single keys send: the sequences read_key knows, sequences it does not
\* know, ESC alone, a letter, Enter
KeySamples ==
  { << ESC, ord("["), ord("3"), ord("~") >>, << ESC, ord("["), ord("5"), ord("~") >>,
    << ESC, ord("["), ord("6"), ord("~") >>,
    << ESC, ord("["), ord("A") >>, << ESC, ord("["), ord("B") >>,
    << ESC, ord("["), ord("C") >>, << ESC, ord("["), ord("D") >>,
    << ESC, ord("["), ord("H") >>, << ESC, ord("["), ord("F") >>,
    << ESC, ord("O"), ord("H") >>, << ESC, ord("O"), ord("F") >>,
    << ESC, ord("["), ord("1"), ord("~") >>, << ESC, ord("["), ord("3"), ord("a") >>,
    << ESC, ord("["), ord("a") >>, << ESC, ord("O"), ord("A") >>,
    << ESC, ord("a"), ord("a") >>, << ESC >>, << ord("a") >>, << ENTER >> }

\* the bytes of a second key pressed right after
KeySeconds == { << ESC, ord("["), ord("B") >>, << ESC >>, << ord("a") >> }

\* what the terminal sends: one key, or two keys one after the other
KeyStreams ==
  { [queue |-> << >>, ahead |-> s] : s \in KeySamples }
    \cup { [queue |-> << >>, ahead |-> s \o t] : s \in KeySamples, t \in KeySeconds }

InitKeys ==
  /\ StartedWith({ << <<"t">>, Some(<<"a", "b", NL>>) >> }, { << 3, 10 >> }, KeyStreams)
  /\ trk = << >>

\* more bytes of the keys pressed reach the terminal
Arrive ==
  /\ error = "none"
  /\ \E n \in 1..Len(stdin.ahead) :
       stdin' = [queue |-> stdin.queue \o SubSeq(stdin.ahead, 1, n),
                 ahead |-> SubSeq(stdin.ahead, n + 1, Len(stdin.ahead))]
  /\ UNCHANGED << cursor_x, cursor_y, row_offset, col_offset, screen_rows, screen_cols,
                  total_rows, rows, modified, file_name, status_message, current_syntax,
                  undo_stack, redo_stack, mark_x, mark_y, clipboard, error,
                  disk, filename, quit_times, raw_mode, pc, key, nkeys, trk >>

\* read_key returns the key k made of the bytes read, and the loop runs its command
KeyOf(k, bytes) ==
  /\ Becomes(process_key(St, k))
  /\ key' = Some(k)
  /\ nkeys' = nkeys + 1
  /\ trk' = Append(trk, [key |-> k, bytes |-> bytes])
  /\ pc' = AtRead

\* read_key: ch = os.read(fd, 1); a byte that is not ESC, or no byte, is the key
ReadByte ==
  /\ error = "none"
  /\ pc = AtRead
  /\ nkeys < MaxReads
  /\ stdin' = [stdin EXCEPT !.queue = after_read(@, 1)]
  /\ IF os_read(stdin.queue, 1) = << ESC >>
     THEN /\ pc' = AtSeq
          /\ UNCHANGED << cursor_x, cursor_y, row_offset, col_offset, screen_rows, screen_cols,
                          total_rows, rows, modified, file_name, status_message, current_syntax,
                          undo_stack, redo_stack, mark_x, mark_y, clipboard, error,
                          key, nkeys, trk >>
     ELSE KeyOf(byte_key(os_read(stdin.queue, 1)), os_read(stdin.queue, 1))
  /\ UNCHANGED << disk, filename, quit_times, raw_mode >>

\* read_key: seq = os.read(fd, 5) after ESC, and the key of the sequence
ReadSeq ==
  /\ error = "none"
  /\ pc = AtSeq
  /\ stdin' = [stdin EXCEPT !.queue = after_read(@, 5)]
  /\ KeyOf(escape_key(os_read(stdin.queue, 5)), << ESC >> \o os_read(stdin.queue, 5))
  /\ UNCHANGED << disk, filename, quit_times, raw_mode >>

NextKeys == Arrive \/ ReadByte \/ ReadSeq

SpecKeys == InitKeys /\ [][NextKeys]_vars

-----------------------------------------------------------------------------
(* A prompt.  CTRL_A asks for a name with _prompt_user_cli, whose loop reads *)
(* its keys with read_key from the same terminal.                             *)

MaxPrompt == 6

\* the process is in _prompt_user_cli, at key = read_key(), after the keys typed
AtPrompt(typed) == [at |-> "prompt", typed |-> typed]

\* the same, after the byte ESC, at seq = os.read(fd, 5)
AtPromptSeq(typed) == [at |-> "prompt seq", typed |-> typed]

\* the bytes the terminal sends: CTRL_A and an answer
PromptStreams ==
  { [queue |-> << >>, ahead |-> s] :
      s \in { << CTRL_A, ord("x"), ENTER >>,
              << CTRL_A, ENTER >>,
              << CTRL_A, ESC >>,
              << CTRL_A, ord("x"), ESC, ord("["), ord("A"), ENTER >>,
              << ESC, ord("["), ord("B"), CTRL_A, BACKSPACE, ord("y"), ENTER >> } }

InitPrompt ==
  /\ StartedWith({ << <<"t">>, Some(<<"a", "b", NL>>) >> }, { << 3, 10 >> }, PromptStreams)
  /\ trk = << >>

RECURSIVE prompt_input(_, _)
\* _prompt_user_cli: input_str after the keys typed
prompt_input(input_str, typed) ==
  IF Len(typed) = 0 THEN input_str
  ELSE prompt_input(prompt_edit(input_str, typed[1]), Tail(typed))

\* _prompt_user_cli("Save as: ", E.file_name) at the top of its loop, lines 622-623
prompt_shown(E, typed) ==
  refresh_screen(set_status_message(E, << "Save as: ", prompt_input(Val(E.file_name), typed),
                                          " (ESC to cancel)" >>))

\* terminal_process_keypress: key = read_key() for a byte that is not ESC, or for
\* no byte; CTRL_A calls save_file_terminal(save_as=True), which prompts
LoopRead ==
  /\ error = "none"
  /\ pc = AtRead
  /\ nkeys < MaxPrompt
  /\ stdin' = [stdin EXCEPT !.queue = after_read(@, 1)]
  /\ IF os_read(stdin.queue, 1) = << ESC >>
     THEN /\ pc' = AtSeq
          /\ UNCHANGED << cursor_x, cursor_y, row_offset, col_offset, screen_rows, screen_cols,
                          total_rows, rows, modified, file_name, status_message, current_syntax,
                          undo_stack, redo_stack, mark_x, mark_y, clipboard, error,
                          key, nkeys, trk >>
     ELSE IF os_read(stdin.queue, 1) = << CTRL_A >>
     THEN /\ Becomes(prompt_shown(St, << >>))
          /\ key' = Some(CTRL_A)
          /\ nkeys' = nkeys + 1
          /\ pc' = AtPrompt(<< >>)
          /\ trk' = trk
     ELSE KeyOf(byte_key(os_read(stdin.queue, 1)), os_read(stdin.queue, 1))
  /\ UNCHANGED << disk, filename, quit_times, raw_mode >>

\* _prompt_user_cli after key = read_key() returned k for the bytes read: ENTER
\* and ESC end the prompt and save_file_terminal goes on, another key edits the
\* answer and the loop shows it
PromptKey(k, bytes) ==
  /\ trk' = Append(trk, [key |-> k, bytes |-> bytes, prompt |-> "Save as: "])
  /\ nkeys' = nkeys + 1
  /\ IF k \in { ENTER, ESC }
     THEN /\ Becomes(refresh_screen(
               save_file_terminal(FileSt, TRUE, [typed |-> pc.typed, last |-> k])))
          /\ disk' = save_file_terminal(FileSt, TRUE, [typed |-> pc.typed, last |-> k]).disk
          /\ pc' = AtRead
     ELSE /\ Becomes(prompt_shown(St, Append(pc.typed, k)))
          /\ disk' = disk
          /\ pc' = AtPrompt(Append(pc.typed, k))
  /\ UNCHANGED << filename, quit_times, raw_mode, key >>

\* _prompt_user_cli: key = read_key(), its ch = os.read(fd, 1)
PromptRead ==
  /\ error = "none"
  /\ pc.at = "prompt"
  /\ stdin' = [stdin EXCEPT !.queue = after_read(@, 1)]
  /\ IF os_read(stdin.queue, 1) = << ESC >>
     THEN /\ pc' = AtPromptSeq(pc.typed)
          /\ UNCHANGED << cursor_x, cursor_y, row_offset, col_offset, screen_rows, screen_cols,
                          total_rows, rows, modified, file_name, status_message, current_syntax,
                          undo_stack, redo_stack, mark_x, mark_y, clipboard, error,
                          disk, filename, quit_times, raw_mode, key, nkeys, trk >>
     ELSE PromptKey(byte_key(os_read(stdin.queue, 1)), os_read(stdin.queue, 1))

\* _prompt_user_cli: key = read_key(), its seq = os.read(fd, 5) after ESC
PromptReadSeq ==
  /\ error = "none"
  /\ pc.at = "prompt seq"
  /\ stdin' = [stdin EXCEPT !.queue = after_read(@, 5)]
  /\ PromptKey(escape_key(os_read(stdin.queue, 5)), << ESC >> \o os_read(stdin.queue, 5))

NextPrompt == Arrive \/ LoopRead \/ ReadSeq \/ PromptRead \/ PromptReadSeq

SpecPrompt == InitPrompt /\ [][NextPrompt]_vars

-----------------------------------------------------------------------------
(* Properties *)

\* this step is the loop reading the key k and running its command
Reads(k) == nkeys' = nkeys + 1 /\ key' = Some(k)

RECURSIVE carried_out(_, _)
\* the block-comment flag the highlighter carries out of row i - 1 (0-based) when
\* the rows are highlighted in order from the top; FALSE before row 0
carried_out(E, i) ==
  IF i = 0 \/ E.current_syntax = None THEN FALSE
  ELSE get_syntax_highlighting(E.rows[i].rendered_content, E.current_syntax,
                               carried_out(E, i - 1)).open_comment

\* C1: after a sequence of n edit commands from any reachable state (n within
\* the undo bound), n calls of undo bring the row contents, cursor_x, cursor_y,
\* col_offset and row_offset back to their values before the sequence, and n
\* calls of redo after that bring back the values after the sequence.
UndoRedoSymmetry ==
  LET n == Len(trk.hist) - 1
  IN  /\ (trk.phase = "undo" /\ trk.undone = n) =>
           error = "none" /\ View(St) = trk.hist[1]
      /\ (trk.phase = "redo" /\ trk.redone = n) =>
           error = "none" /\ View(St) = trk.hist[n + 1]

\* C1 happens: two edits that change the view were undone and redone
UndoRedoSymmetryReached ==
  /\ trk.phase = "redo"
  /\ Len(trk.hist) > 2
  /\ trk.redone = Len(trk.hist) - 1
  /\ trk.hist[1] # trk.hist[2]
  /\ trk.hist[2] # trk.hist[3]
  /\ Len(undo_stack) > Len(trk.hist) - 1

\* C2: the undo stack never holds more than 50 snapshots; a push on a full
\* stack drops the oldest one, so that after n edits the i-th undo, i up to
\* min(n, 50), brings back the state before the i-th last edit, and every
\* further undo reports "Nothing to undo" and changes nothing.
UndoStackBound ==
  /\ Len(undo_stack) <= UNDO_LIMIT
  /\ trk.phase = "undo" =>
       LET n == Len(trk.hist) - 1
           m == Min(n, UNDO_LIMIT)
       IN  /\ error = "none"
           /\ IF trk.undone <= m
              THEN /\ View(St) = trk.hist[n + 1 - trk.undone]
                   /\ status_message = Msg("Undo performed")
                   /\ Len(undo_stack) = m - trk.undone
                   /\ Len(redo_stack) = trk.undone
              ELSE /\ View(St) = trk.hist[n + 1 - m]
                   /\ status_message = Msg("Nothing to undo")
                   /\ Len(undo_stack) = 0
                   /\ Len(redo_stack) = m

\* C2 happens: 60 edits, 50 undos, and one more undo
UndoStackBoundReached ==
  /\ trk.phase = "undo"
  /\ Len(trk.hist) - 1 = UNDO_LIMIT + 10
  /\ trk.undone = UNDO_LIMIT + 1
  /\ status_message = Msg("Nothing to undo")

\* C3: every edit command that reaches save_undo_state leaves the redo stack
\* empty, so that a redo right after it reports "Nothing to redo"; an undo
\* takes one snapshot off the undo stack and puts one on the redo stack, and a
\* redo does the reverse.
RedoClearedByEdit ==
  [][ /\ \A k \in EditKeys :
           (Reads(k) /\ IsEdit(St, k)) =>
             /\ redo_stack' = << >>
             /\ error' = "none" =>
                  /\ redo(St').status_message = Msg("Nothing to redo")
                  /\ redo(St').undo_stack = undo_stack'
      /\ (Reads(CTRL_Z) /\ undo_stack # << >>) =>
           /\ undo_stack' = SubSeq(undo_stack, 1, Len(undo_stack) - 1)
           /\ redo_stack' = Append(redo_stack, Snapshot(St))
      /\ (Reads(CTRL_R) /\ redo_stack # << >>) =>
           /\ redo_stack' = SubSeq(redo_stack, 1, Len(redo_stack) - 1)
           /\ undo_stack' = Append(undo_stack, Snapshot(St))
    ]_vars

\* C3 happens: a character was typed right after an undo
RedoClearedByEditReached ==
  /\ key = Some(ord("a"))
  /\ status_message = Msg("Undo performed")
  /\ redo_stack = << >>
  /\ Len(undo_stack) > 0
  /\ error = "none"

\* C4: after every command, each row's rendered text is the tab expansion of
\* its content and its highlight is the highlighter's output for the rendered
\* text, the active language and the comment flag carried out of the row above
\* (FALSE for row 0; all normal without a language).
RowsInSync ==
  error = "none" =>
    \A i \in 1..Len(rows) :
      /\ rows[i].rendered_content = Replace(rows[i].content, TAB, Repeat(" ", 8))
      /\ rows[i].highlight =
           IF current_syntax = None
           THEN Repeat(HL_NORMAL, Len(rows[i].rendered_content))
           ELSE get_syntax_highlighting(rows[i].rendered_content, current_syntax,
                                        carried_out(St, i - 1)).highlight

\* C5: when row k ends inside an unterminated block comment, every character
\* of a plain-text row k + 1 is classified block comment; when row k does not
\* (the comment was closed or its opener removed), row k + 1 has the
\* classification of a row that starts outside a comment.
CommentPropagation ==
  (error = "none" /\ current_syntax # None) =>
    \A k \in 1..(Len(rows) - 1) :
      LET below == rows[k + 1]
      IN  IF carried_out(St, k)
          THEN (\A j \in 1..Len(below.rendered_content) :
                  below.rendered_content[j] \notin {"/", "*", "\"", "'"})
               => \A j \in 1..Len(below.highlight) : below.highlight[j] = HL_MLCOMMENT
          ELSE below.highlight =
                 get_syntax_highlighting(below.rendered_content, current_syntax,
                                         FALSE).highlight

\* C6: in every state a command leaves behind, col_offset + cursor_x is at most
\* the rendered length of the row at row_offset + cursor_y, 0 when there is no
\* such row.
CursorColumnInvariant ==
  error = "none" =>
    LET y == row_offset + cursor_y
        row_len == IF 0 <= y /\ y < Len(rows) THEN Len(rows[y + 1].rendered_content) ELSE 0
    IN  col_offset + cursor_x <= row_len

\* C7: undo with an empty undo stack, redo with an empty redo stack, copy
\* without a mark and cut without a mark change nothing but the status
\* message.
EmptyOperationsNoOp ==
  [][ ( \/ Reads(CTRL_Z) /\ undo_stack = << >>
        \/ Reads(CTRL_R) /\ redo_stack = << >>
        \/ Reads(CTRL_C) /\ (mark_x = None \/ mark_y = None)
        \/ Reads(CTRL_X) /\ (mark_x = None \/ mark_y = None) )
      => /\ error' = "none"
         /\ UNCHANGED << rows, total_rows, cursor_x, cursor_y, row_offset, col_offset,
                         mark_x, mark_y, clipboard, modified, undo_stack, redo_stack >>
    ]_vars

\* C8: no key command ends with an unhandled error.
NoCommandRaises == error = "none"

\* C9: a command that changes the row contents (an edit command, or an undo
\* or a redo that replaces the document) leaves mark_x and mark_y both None,
\* so that a mark never refers to a document that has since changed.
MarkClearedByEdit ==
  [][ \A k \in Keys :
        ( /\ Reads(k)
          /\ error' = "none"
          /\ k \in EditKeys \cup { CTRL_Z, CTRL_R }
          /\ RowContents(St') # RowContents(St) )
        => (mark_x' = None /\ mark_y' = None)
    ]_vars

\* C10: copy_selection puts in the clipboard the raw text between the mark and
\* the cursor, the two points ordered by row and then by column, the rows of
\* the span joined by line breaks.
SelectionOrderIndependent ==
  [][ (Reads(CTRL_C) /\ mark_x # None /\ mark_y # None /\ error' = "none") =>
        LET cy == row_offset + cursor_y
            cx == col_offset + cursor_x
            mark_first == Val(mark_y) < cy \/ (Val(mark_y) = cy /\ Val(mark_x) <= cx)
            b == [ start_y |-> IF mark_first THEN Val(mark_y) ELSE cy,
                   start_x |-> IF mark_first THEN Val(mark_x) ELSE cx,
                   end_y |-> IF mark_first THEN cy ELSE Val(mark_y),
                   end_x |-> IF mark_first THEN cx ELSE Val(mark_x) ]
            want == clipboard_lines(St, b, b.start_y, << >>)
        IN  want.raised \/ clipboard' = Join(want.lines, << NL >>)
    ]_vars

-----------------------------------------------------------------------------
(* Cut and paste *)

\* the mark and the cursor are on rows of the document, at columns of these rows
SelectionOnRows(E) ==
  /\ E.mark_x # None /\ E.mark_y # None
  /\ Val(E.mark_y) < E.total_rows /\ FileRow(E) < E.total_rows
  /\ E.total_rows = Len(E.rows)
  /\ Val(E.mark_x) <= E.rows[Val(E.mark_y) + 1].rendered_size
  /\ E.col_offset + E.cursor_x <= E.rows[FileRow(E) + 1].rendered_size

\* CTRL_X immediately followed by CTRL_V
cut_then_paste(E) == process_key(process_key(E, CTRL_X), CTRL_V)

\* C11: for a mark and a cursor on existing rows, cut_selection immediately
\* followed by paste_clipboard leaves the row contents as they were before the cut.
CutPasteRoundTrip ==
  (error = "none" /\ SelectionOnRows(St)) =>
     /\ cut_then_paste(St).error = "none"
     /\ RowContents(cut_then_paste(St)) = RowContents(St)

-----------------------------------------------------------------------------
(* Column mapping *)

\* C12: for every row and every raw offset c with 0 <= c <= content length,
\* get_content_col(row, get_rendered_col(row, c)) = c.
ColumnInverseLaw ==
  \A r \in 1..Len(rows) : \A c \in 0..Len(rows[r].content) :
    get_content_col(rows[r], get_rendered_col(rows[r], c)) = c

\* C13: the rendered form of a row expands each tab to the next multiple of 8:
\* the rendered length is get_rendered_col(row, content length), and every raw
\* character that is not a tab stands in the rendered text at the column
\* get_rendered_col gives for it.
RenderedAgreesWithMapping ==
  \A r \in 1..Len(rows) :
    /\ rows[r].rendered_size = get_rendered_col(rows[r], Len(rows[r].content))
    /\ \A c \in 0..(Len(rows[r].content) - 1) :
         rows[r].content[c + 1] # TAB =>
           /\ get_rendered_col(rows[r], c) < Len(rows[r].rendered_content)
           /\ rows[r].rendered_content[get_rendered_col(rows[r], c) + 1] = rows[r].content[c + 1]

-----------------------------------------------------------------------------
(* Row indices *)

\* C14: in every reachable state total_rows is the number of rows of the
\* document and every row's stored index is its position in the row list.
DocumentIndexInvariant ==
  error = "none" =>
    /\ total_rows = Len(rows)
    /\ \A r \in 1..Len(rows) : rows[r].index = r - 1

-----------------------------------------------------------------------------
(* Files *)

\* the text of the regular file the editor is on
FileText(d, name) == d[Val(name)].text

\* the editor has just read its file: the command line or CTRL_O named a regular
\* file, it was read, and no key came since
JustOpened ==
  /\ error = "none"
  /\ file_name # None /\ Val(file_name) \in DOMAIN disk /\ ~IsDirectory(disk, Val(file_name))
  /\ nkeys = 0 \/ (key = Some(CTRL_O) /\ status_message = << "Opened ", Val(file_name) >>)

\* the step is CTRL_S and the file was written
SaveWrites ==
  /\ key' = Some(CTRL_S)
  /\ error' = "none"
  /\ file_name' # None
  /\ status_message' = << ToString(Len(FileText(disk', file_name'))), " bytes saved to ",
                          Val(file_name') >>

\* C15: saving a file right after it was opened writes a text that differs from the
\* original in the final newline at most, and loading the saved text gives the rows
\* loaded from the original, trailing empty lines included.
LoadSaveRoundTrip ==
  [][(JustOpened /\ SaveWrites) =>
       /\ file_name' = file_name
       /\ file_lines(FileText(disk', file_name)) = file_lines(FileText(disk, file_name))
       /\ rstrip(FileText(disk', file_name), {NL}) \in
            { FileText(disk, file_name),
              SubSeq(FileText(disk, file_name), 1, Len(FileText(disk, file_name)) - 1) }
    ]_vars

\* C16: the text save writes is the row contents joined by a single newline, with a
\* newline after the last row.
SaveFormat ==
  [][(SaveWrites /\ Len(rows') > 0) =>
       FileText(disk', file_name') = Join(RowContents(St'), << NL >>) \o << NL >>]_vars

\* the step is the key k, whose command ended with the status message of a failure
\* that begins with text
FailsWith(k, text) ==
  /\ key' = Some(k)
  /\ error' = "none"
  /\ Len(status_message') > 0 /\ status_message'[1] = text

\* C17: when open fails for another reason than a missing file, the rows, the
\* cursor and the offsets, the file name, the language and the modified flag are as
\* they were before the command.
OpenFailureKeepsDocument ==
  [][FailsWith(CTRL_O, "Error opening file: ") =>
       /\ rows' = rows /\ total_rows' = total_rows
       /\ cursor_x' = cursor_x /\ cursor_y' = cursor_y
       /\ row_offset' = row_offset /\ col_offset' = col_offset
       /\ file_name' = file_name
       /\ current_syntax' = current_syntax
       /\ modified' = modified]_vars

\* C18: when writing the file fails in save or save-as, the status message reports
\* the failure and the rows, the modified flag, the file name and the language are
\* as they were before the command.
SaveFailureKeepsSession ==
  [][(FailsWith(CTRL_S, "Error saving file: ") \/ FailsWith(CTRL_A, "Error saving file: ")) =>
       /\ rows' = rows /\ total_rows' = total_rows
       /\ modified' = modified
       /\ file_name' = file_name
       /\ current_syntax' = current_syntax]_vars

\* the step is CTRL_O, and open_file_terminal went on to a name that no file has
OpensMissingFile ==
  /\ key' = Some(CTRL_O)
  /\ error' = "none"
  /\ status_message' # Msg("Open canceled")
  /\ file_name' # None /\ Val(file_name') \notin DOMAIN disk

\* C20: after open_file_terminal returns for a file that does not exist, the status
\* message reports the file as not found and created.
MissingFileReported ==
  [][OpensMissingFile =>
       status_message' = << "File ", Val(file_name'), " not found. Created new file." >>]_vars

-----------------------------------------------------------------------------
(* A new file *)

\* the language syn is the one of the name: the first syntax with an extension that
\* ends the name, none when no extension does
LanguageOfName(syn, name) ==
  IF syn = None
  THEN \A k \in 1..Len(SYNTAX_DB) : \A e \in 1..Len(SYNTAX_DB[k].file_extensions) :
         ~EndsWith(name, SYNTAX_DB[k].file_extensions[e])
  ELSE /\ \E e \in 1..Len(SYNTAX_DB[Val(syn)].file_extensions) :
            EndsWith(name, SYNTAX_DB[Val(syn)].file_extensions[e])
       /\ \A k \in 1..(Val(syn) - 1) : \A e \in 1..Len(SYNTAX_DB[k].file_extensions) :
            ~EndsWith(name, SYNTAX_DB[k].file_extensions[e])

\* C19: opening a file that does not exist gives a document of zero rows with the
\* requested name, the modified flag clear and the language of the name; for
\* new.py, typing d, e, f, space, f, (, ), :, Enter then leaves two rows, row 0
\* 'def f():' with its first three characters keyword-primary, and row 1 empty.
NewFileScenario ==
  /\ nkeys = 0 =>
       /\ error = "none"
       /\ rows = << >> /\ total_rows = 0
       /\ file_name = Some(filename)
       /\ modified = 0
       /\ LanguageOfName(current_syntax, filename)
  /\ (nkeys = Len(NewScript) /\ filename = <<"n", "e", "w", ".", "p", "y">>) =>
       /\ error = "none"
       /\ total_rows = 2 /\ Len(rows) = 2
       /\ rows[1].content = <<"d", "e", "f", " ", "f", "(", ")", ":">>
       /\ \A i \in 1..3 : rows[1].highlight[i] = HL_KEYWORD1
       /\ rows[2].content = << >>

NewFileScenarioReached ==
  /\ nkeys = Len(NewScript) /\ key = Some(ENTER)
  /\ filename = <<"n", "e", "w", ".", "p", "y">>
  /\ current_syntax # None
  /\ Len(rows) = 2

-----------------------------------------------------------------------------
(* Quit confirmation *)

\* the three last keys of the keys read were CTRL_Q
ThreeQuitsBefore(read) ==
  /\ Len(read) >= 3
  /\ \A i \in (Len(read) - 2)..Len(read) : read[i] = CTRL_Q

\* C21: while the document is modified CTRL_Q ends the process only if the three
\* key events right before it were CTRL_Q too, each of which only set the warning;
\* any other key event in between, the ESC of a read timeout included, makes three
\* more necessary; when the document is not modified a single CTRL_Q ends the process.
QuitConfirmation ==
  [][(key' = Some(CTRL_Q) /\ trk' = Append(trk, CTRL_Q)) =>
       IF modified = 0 \/ ThreeQuitsBefore(trk)
       THEN error' = "SystemExit"
       ELSE /\ error' = "none"
            /\ status_message' = Msg(WARNING)
            /\ rows' = rows /\ modified' = modified
            /\ cursor_x' = cursor_x /\ cursor_y' = cursor_y]_vars

\* the document was modified, CTRL_Q was read and then the ESC of a read timeout,
\* and four more CTRL_Q have ended the process
QuitConfirmationReached ==
  /\ error = "SystemExit"
  /\ modified # 0
  /\ Len(trk) >= 7
  /\ \E i \in 2..(Len(trk) - 5) : trk[i] = CTRL_Q /\ trk[i + 1] = ESC
  /\ \A i \in (Len(trk) - 3)..Len(trk) : trk[i] = CTRL_Q

-----------------------------------------------------------------------------
(* Prompts *)

\* the fields a cancelled command leaves alone are in E what they are now
SessionAs(E) ==
  /\ E.rows = rows /\ E.total_rows = total_rows
  /\ E.cursor_x = cursor_x /\ E.cursor_y = cursor_y
  /\ E.row_offset = row_offset /\ E.col_offset = col_offset
  /\ E.file_name = file_name /\ E.current_syntax = current_syntax
  /\ E.modified = modified
  /\ E.undo_stack = undo_stack /\ E.redo_stack = redo_stack
  /\ E.mark_x = mark_x /\ E.mark_y = mark_y /\ E.clipboard = clipboard
  /\ E.disk = disk
  /\ E.error = "none"

\* the command ended as E: cancelled with this message and nothing else changed
Cancelled(E, message) == E.status_message = Msg(message) /\ SessionAs(E)

\* C22: ESC in the prompt for the name of the file to open, in the prompt about
\* the unsaved changes and in the prompt of save-as gives a 'canceled' status
\* message and changes nothing else: rows, cursor, file name, language, modified
\* flag and the undo and redo stacks are as before the command.
PromptEscapeCancels ==
  error = "none" =>
    \A name \in NameAnswers, discard \in DiscardAnswers :
      /\ name.last = ESC =>
           /\ Cancelled(open_file_prompted(FileSt, name, discard), "Open canceled")
           /\ Cancelled(save_file_terminal(FileSt, TRUE, name), "Save canceled")
      /\ (name.last = ENTER /\ Len(name.typed) > 0 /\ modified # 0 /\ discard.last = ESC) =>
           Cancelled(open_file_prompted(FileSt, name, discard), "Open canceled")

\* CTRL_O was cancelled on a document that is modified and has undo history
PromptEscapeCancelsReached ==
  /\ error = "none"
  /\ key = Some(CTRL_O)
  /\ status_message = Msg("Open canceled")
  /\ modified # 0
  /\ Len(undo_stack) > 0
  /\ nkeys >= 3

-----------------------------------------------------------------------------
(* Resizing *)

\* C23: the resize handler, which rewrites screen_rows and screen_cols, runs only
\* while the loop is suspended in the read of a key, never between two steps of a
\* command: a command sees one screen size from its start to its end.
ResizeOnlyAtRead ==
  [][(screen_rows' # screen_rows \/ screen_cols' # screen_cols) => pc = AtRead]_vars

-----------------------------------------------------------------------------
(* Raw mode *)

\* C24: when the terminal attributes cannot be read or set at startup the process
\* ends before the command loop starts: the loop never reads keys without raw mode.
RawModeOrExit == pc = AtRead => raw_mode

-----------------------------------------------------------------------------
(* Highlighting *)

\* the single-line comment marker of the language syn, << >> without one
MarkerOf(syn) == IF syn = None THEN << >> ELSE SYNTAX_DB[Val(syn)].singleline_comment_start

\* the single-line comment marker stands in line at position p (0-based)
MarkerAt(line, syn, p) == Len(MarkerOf(syn)) > 0 /\ StartsWith(line, MarkerOf(syn), p)

\* nothing before position p of line opens a string or a block comment
PlainBefore(line, syn, p) ==
  /\ \A j \in 1..p : line[j] \notin {"\"", "'"}
  /\ \A j \in 0..(p - 1) : ~StartsWith(line, SYNTAX_DB[Val(syn)].multiline_comment_start, j)

\* res is the highlighting of line: from each marker that is not classified string
\* or block comment on, all is comment, and nothing is carried out
LineCommentIn(line, syn, res) ==
  \A p \in 0..(Len(line) - 1) :
    (MarkerAt(line, syn, p) /\ res.highlight[p + 1] \notin {HL_STRING, HL_MLCOMMENT}) =>
       /\ \A j \in (p + 1)..Len(line) : res.highlight[j] = HL_COMMENT
       /\ ~res.open_comment

\* the same for the line highlighted with the carried-in flag open
LineCommentLaw(line, syn, open) ==
  LineCommentIn(line, syn, get_syntax_highlighting(line, syn, open))

CarriedIn(r) == r > 1 /\ has_open_comment(rows[r - 1])

\* C26: for every row, has_open_comment() of the row, which is the flag carried
\* into the next row, is the flag get_syntax_highlighting carries out of the row;
\* also for empty rows inside a block comment and for rows that end with '*/'
\* without closing the comment, such as '/*/'.
CarryOutAgreement ==
  error = "none" =>
    \A r \in 1..Len(rows) :
      has_open_comment(rows[r]) =
        get_syntax_highlighting(rows[r].rendered_content, current_syntax, CarriedIn(r)).open_comment

\* the keyword kw of a keyword list is tagged secondary
KwSecondary(kw) == kw[Len(kw)] = "|"

\* its text
KwText(kw) == IF KwSecondary(kw) THEN SubSeq(kw, 1, Len(kw) - 1) ELSE kw

\* the keyword kw stands in line at position s (0-based), letter for letter, and a
\* separator or the end of the line follows it
KwMatches(line, kw, s) ==
  /\ s + Len(KwText(kw)) <= Len(line)
  /\ SubSeq(line, s + 1, s + Len(KwText(kw))) = KwText(kw)
  /\ (s + Len(KwText(kw)) = Len(line) \/ is_separator(line[s + Len(KwText(kw)) + 1]))

\* the characters of line from position s that the keyword number k covers are
\* classified as the tag of that keyword says
KwPainted(line, keywords, k, s, highlight) ==
  \A j \in (s + 1)..(s + Len(KwText(keywords[k]))) :
    highlight[j] = IF KwSecondary(keywords[k]) THEN HL_KEYWORD2 ELSE HL_KEYWORD1

\* highlight classifies line: each character classified keyword lies in a keyword
\* that stands at a separator boundary, is followed by a separator or the end of
\* the line, is the first of the list to match there, and is classified by its tag
KeywordsIn(line, keywords, highlight) ==
  \A p \in 1..Len(line) :
    highlight[p] \in {HL_KEYWORD1, HL_KEYWORD2} =>
      \E k \in 1..Len(keywords), s \in 0..(p - 1) :
        /\ p <= s + Len(KwText(keywords[k]))
        /\ KwMatches(line, keywords[k], s)
        /\ s = 0 \/ is_separator(line[s])
        /\ \A j \in 1..(k - 1) : ~KwMatches(line, keywords[j], s)
        /\ KwPainted(line, keywords, k, s, highlight)

\* C30: a keyword is classified, primary or secondary by its tag, only where it
\* matches case-sensitively at a separator boundary (the line start or right after a
\* separator) and is followed by a separator or the end of the line; the first
\* matching keyword of the list wins; the literal True at the start of a Python row
\* is classified keyword-secondary.
KeywordClassification ==
  (error = "none" /\ current_syntax # None) =>
    \A r \in 1..Len(rows) :
      /\ \A open \in BOOLEAN :
           KeywordsIn(rows[r].rendered_content, SYNTAX_DB[Val(current_syntax)].keywords,
                      get_syntax_highlighting(rows[r].rendered_content, current_syntax, open).highlight)
      /\ (/\ SYNTAX_DB[Val(current_syntax)].keywords = PY_KEYWORDS
          /\ KwMatches(rows[r].rendered_content, <<"T", "r", "u", "e">>, 0)) =>
            \A j \in 1..4 : rows[r].highlight[j] = HL_KEYWORD2

\* rows where the law decides: True before a separator in Python, and in C the
\* keyword listed as primary and as secondary, after a separator
KeywordClassificationReached ==
  /\ error = "none"
  /\ nkeys > 0
  /\ Len(rows) = 1
  /\ \/ rows[1].rendered_content = <<"T", "r", "u", "e", " ">>
     \/ /\ rows[1].rendered_content = <<"/", "a", "u", "t", "o">>
        /\ rows[1].highlight = << HL_NORMAL, HL_KEYWORD1, HL_KEYWORD1, HL_KEYWORD1, HL_KEYWORD1 >>

-----------------------------------------------------------------------------
(* Paste *)

\* the raw offset in content of the rendered column rx: the last offset whose
\* rendered column is not behind rx
ContentPosition(content, rx) ==
  CHOOSE c \in 0..Len(content) :
    /\ rendered_col_loop(content, c, 0, 0) <= rx
    /\ \A d \in (c + 1)..Len(content) : rendered_col_loop(content, d, 0, 0) > rx

\* the number of line breaks in text
LineBreaks(text) == Cardinality({k \in 1..Len(text) : text[k] = NL})

\* the row contents of E, with the empty row paste_clipboard adds when the cursor
\* is on the line after the last row
RowsForPaste(E) ==
  IF FileRow(E) >= Len(E.rows) THEN Append(RowContents(E), << >>) ELSE RowContents(E)

\* the text of the rows R with the text clip inserted in row p at raw offset c
Spliced(R, p, c, clip) ==
  Join(SubSeq(R, 1, p - 1) \o << SubSeq(R[p], 1, c) \o clip \o SubSeq(R[p], c + 1, Len(R[p])) >>
         \o SubSeq(R, p + 1, Len(R)), << NL >>)

\* the raw offset in its row of the end of the text clip inserted at raw offset c
EndOfInserted(c, clip) ==
  IF LineBreaks(clip) = 0 THEN c + Len(clip)
  ELSE Len(Split(clip, NL)[Len(Split(clip, NL))])

\* P is E after paste_clipboard: no error, one more undo snapshot (of E), the
\* clipboard spliced in at the cursor, the rows grown by the line breaks, the
\* cursor at the end of the inserted text
PastedFrom(E, P, R, p, c) ==
  /\ P.error = "none"
  /\ P.undo_stack = IF Len(E.undo_stack) < UNDO_LIMIT
                    THEN Append(E.undo_stack, Snapshot(E))
                    ELSE Tail(Append(E.undo_stack, Snapshot(E)))
  /\ Join(RowContents(P), << NL >>) = Spliced(R, p, c, E.clipboard)
  /\ Len(P.rows) = Len(R) + LineBreaks(E.clipboard)
  /\ P.total_rows = Len(P.rows)
  /\ FileRow(P) = p - 1 + LineBreaks(E.clipboard)
  /\ P.col_offset + P.cursor_x =
       rendered_col_loop(P.rows[FileRow(P) + 1].content, EndOfInserted(c, E.clipboard), 0, 0)

\* C27: paste_clipboard with a non-empty clipboard pushes exactly one undo
\* snapshot and splices the clipboard into the document at the cursor's content
\* position; the row count grows by the number of line breaks in the clipboard and
\* the cursor ends at the end of the inserted text.
PasteSplices ==
  (/\ error = "none"
   /\ Len(clipboard) > 0
   /\ total_rows = Len(rows)
   /\ FileRow(St) \in 0..Len(rows)) =>
     PastedFrom(St, paste_clipboard(St), RowsForPaste(St), FileRow(St) + 1,
                ContentPosition(RowsForPaste(St)[FileRow(St) + 1], col_offset + cursor_x))

-----------------------------------------------------------------------------
(* Backspace *)

\* the cursor of E is on a row of the document, between two raw characters of it
\* (or at its start or end)
CursorOnCharacter(E) ==
  /\ E.total_rows = Len(E.rows)
  /\ FileRow(E) \in 0..(Len(E.rows) - 1)
  /\ \E c \in 0..Len(E.rows[FileRow(E) + 1].content) :
       rendered_col_loop(E.rows[FileRow(E) + 1].content, c, 0, 0) = E.col_offset + E.cursor_x

\* the sequence s without its element number k
Without(s, k) == SubSeq(s, 1, k - 1) \o SubSeq(s, k + 1, Len(s))

\* D is E after delete_char, for the cursor on row number p (1-based) at raw offset c
DeletedFrom(E, D, R, p, c) ==
  /\ D.error = "none"
  /\ IF c > 0
     THEN /\ RowContents(D) = [R EXCEPT ![p] = Without(R[p], c)]
          /\ FileRow(D) = p - 1
          /\ D.col_offset + D.cursor_x = rendered_col_loop(Without(R[p], c), c - 1, 0, 0)
     ELSE IF p > 1
     THEN /\ RowContents(D) = Without([R EXCEPT ![p - 1] = R[p - 1] \o R[p]], p)
          /\ FileRow(D) = p - 2
          /\ D.col_offset + D.cursor_x = rendered_col_loop(R[p - 1], Len(R[p - 1]), 0, 0)
     ELSE RowContents(D) = R

\* C28: delete_char at column 0 of a row that is not the first appends the row to
\* the previous row, removes it and puts the cursor at the rendered column of the
\* previous row's original length; otherwise it deletes exactly the raw character
\* before the cursor and moves the rendered column back so that the cursor still
\* points at the same following character; at column 0 of the first row the
\* document is unchanged.
BackspaceLaw ==
  (error = "none" /\ CursorOnCharacter(St)) =>
    DeletedFrom(St, delete_char(St), RowContents(St), FileRow(St) + 1,
                ContentPosition(rows[FileRow(St) + 1].content, col_offset + cursor_x))

-----------------------------------------------------------------------------
(* Cursor moves *)

\* M is E after calls of move_cursor that returned: on a row of the document the
\* cursor's rendered column is within the row, and the cursor has not gone down
\* past the last row
MovedFrom(E, M) ==
  M.error = "none" =>
    /\ FileRow(M) \in 0..(Len(M.rows) - 1) =>
         M.col_offset + M.cursor_x <= Len(M.rows[FileRow(M) + 1].rendered_content)
    /\ FileRow(M) > FileRow(E) => FileRow(M) <= M.total_rows - 1

-----------------------------------------------------------------------------
(* Keys *)

\* the escape sequences with a key of their own, and their keys
KnownSequences ==
  { << << ESC, ord("["), ord("3"), ord("~") >>, DEL_KEY >>,
    << << ESC, ord("["), ord("5"), ord("~") >>, PAGE_UP >>,
    << << ESC, ord("["), ord("6"), ord("~") >>, PAGE_DOWN >>,
    << << ESC, ord("["), ord("A") >>, ARROW_UP >>,
    << << ESC, ord("["), ord("B") >>, ARROW_DOWN >>,
    << << ESC, ord("["), ord("C") >>, ARROW_RIGHT >>,
    << << ESC, ord("["), ord("D") >>, ARROW_LEFT >>,
    << << ESC, ord("["), ord("H") >>, HOME_KEY >>,
    << << ESC, ord("["), ord("F") >>, END_KEY >>,
    << << ESC, ord("O"), ord("H") >>, HOME_KEY >>,
    << << ESC, ord("O"), ord("F") >>, END_KEY >> }

\* the bytes read begin with the sequence s
BeginsWith(bytes, s) == Len(s) <= Len(bytes) /\ SubSeq(bytes, 1, Len(s)) = s

\* the key read_key returned for the bytes it read is the key of the table
Decoded(k, bytes) ==
  IF bytes[1] # ESC THEN Len(bytes) = 1 /\ k = bytes[1]
  ELSE IF \E p \in KnownSequences : BeginsWith(bytes, p[1])
       THEN \A p \in KnownSequences : BeginsWith(bytes, p[1]) => k = p[2]
       ELSE k = ESC

\* C31: ESC [ 3 ~, ESC [ 5 ~, ESC [ 6 ~ decode to Delete, Page-Up, Page-Down;
\* ESC [ A/B/C/D to arrow up/down/right/left; ESC [ H/F and ESC O H/F to Home/End;
\* a lone ESC and every unrecognised escape sequence decode to ESC; any other
\* single byte is returned as its literal value.
KeyDecoding ==
  \A i \in 1..Len(trk) : Len(trk[i].bytes) > 0 => Decoded(trk[i].key, trk[i].bytes)

\* Page-Up was decoded, and after it ESC [ B, which reached the terminal later
KeyDecodingReached ==
  /\ Len(trk) = 2
  /\ trk[1] = [key |-> PAGE_UP, bytes |-> << ESC, ord("["), ord("5"), ord("~") >>]
  /\ trk[2] = [key |-> ARROW_DOWN, bytes |-> << ESC, ord("["), ord("B") >>]

\* C37: no input byte is lost by the decoder: each byte contributes to exactly one
\* key event; the bytes that follow a complete escape sequence, or a lone ESC, in
\* the same read are delivered as later key events.
NoByteLost ==
  \A i \in 1..Len(trk) :
    /\ \A p \in KnownSequences : BeginsWith(trk[i].bytes, p[1]) => trk[i].bytes = p[1]
    /\ BeginsWith(trk[i].bytes, << ESC >>) => Len(trk[i].bytes) # 2

\* C34: a key read that times out with no input byte does not end a modal prompt:
\* _prompt_user_cli returns only after an Enter byte or an ESC byte was received.
PromptNeedsByte ==
  \A i \in 1..Len(trk) :
    ("prompt" \in DOMAIN trk[i] /\ trk[i].key \in { ENTER, ESC }) =>
       (BeginsWith(trk[i].bytes, << ENTER >>) \/ BeginsWith(trk[i].bytes, << ESC >>))

-----------------------------------------------------------------------------
(* Viewport *)

\* C32: for a fixed positive screen size every reachable state has
\* 0 <= cursor_x < screen_cols and 0 <= cursor_y < screen_rows, hence
\* 0 <= row_offset + cursor_y: a move left at column 0 of the top visible row and a
\* move right at the end of the bottom visible row scroll the viewport.
ViewportInvariant ==
  error = "none" =>
    /\ 0 <= cursor_x /\ cursor_x < screen_cols
    /\ 0 <= cursor_y /\ cursor_y < screen_rows
    /\ 0 <= row_offset + cursor_y

-----------------------------------------------------------------------------
(* History *)

\* O is the session after open_file_terminal replaced the document by the file of
\* another name
ReplacedBy(O) ==
  /\ O.error = "none"
  /\ O.file_name # None /\ O.file_name # file_name
  /\ O.status_message = << "Opened ", Val(O.file_name) >>

\* no undo and no redo changes the rows of O
NoHistory(O) ==
  /\ RowContents(undo(O)) = RowContents(O)
  /\ RowContents(redo(O)) = RowContents(O)

\* C33: after open_file_terminal replaces the document, no undo or redo puts rows
\* of the previously open document into the document bound to the new file name.
HistoryStaysInDocument ==
  error = "none" =>
    \A name \in NameAnswers, discard \in DiscardAnswers :
      ReplacedBy(open_file_prompted(FileSt, name, discard)) =>
        NoHistory(open_file_prompted(FileSt, name, discard))

-----------------------------------------------------------------------------
(* Strings *)

RECURSIVE ClosingQuote(_, _, _)
\* the position (0-based) of the quote that closes the string opened by the
\* quote q, looked for from position i on: a backslash takes the character after
\* it along; the last position of the line when the string is not closed
ClosingQuote(line, q, i) ==
  IF i >= Len(line) THEN Len(line) - 1
  ELSE IF line[i + 1] = "\\" /\ i + 1 < Len(line) THEN ClosingQuote(line, q, i + 2)
  ELSE IF line[i + 1] = q THEN i
  ELSE ClosingQuote(line, q, i + 1)

\* a string opens at position p of line: a quote with no quote and no comment
\* marker before it
StringOpensAt(line, syn, p) ==
  /\ line[p + 1] \in {"\"", "'"}
  /\ PlainBefore(line, syn, p)
  /\ \A j \in 0..(p - 1) : ~MarkerAt(line, syn, j)

\* every block-comment opener of line stands inside the string from p to e
OpenersInside(line, syn, p, e) ==
  \A j \in 0..(Len(line) - 1) :
    StartsWith(line, SYNTAX_DB[Val(syn)].multiline_comment_start, j) =>
      (p < j /\ j + Len(SYNTAX_DB[Val(syn)].multiline_comment_start) - 1 <= e)

\* res is the highlighting of line with nothing carried in: the string that opens
\* at p is classified string up to e, and block-comment openers inside it carry
\* nothing out
StringIn(line, syn, p, e, res) ==
  /\ \A j \in (p + 1)..(e + 1) : res.highlight[j] = HL_STRING
  /\ OpenersInside(line, syn, p, e) => ~res.open_comment

\* C35: every character from an opening quote to its closing quote, or to the end
\* of the line, is classified string; a quote after a backslash does not close the
\* string; no comment marker inside the string starts a comment, so that a line
\* whose only block-comment opener is inside a string carries no open comment out.
StringsOpaque ==
  (error = "none" /\ current_syntax # None) =>
    \A r \in 1..Len(rows) : \A p \in 0..(rows[r].rendered_size - 1) :
      StringOpensAt(rows[r].rendered_content, current_syntax, p) =>
        StringIn(rows[r].rendered_content, current_syntax, p,
                 ClosingQuote(rows[r].rendered_content, rows[r].rendered_content[p + 1], p + 1),
                 get_syntax_highlighting(rows[r].rendered_content, current_syntax, FALSE))

-----------------------------------------------------------------------------
(* The modified flag *)

\* the step is an open that succeeded or a save that wrote the file
OpenedOrSaved ==
  \/ key' = Some(CTRL_O) /\ Len(status_message') = 2 /\ status_message'[1] = "Opened "
  \/ key' \in {Some(CTRL_S), Some(CTRL_A)}
       /\ Len(status_message') = 3 /\ status_message'[2] = " bytes saved to "

\* C36: the modified flag tracks unsaved changes: a step that changes the contents
\* of the rows is a successful open or save or leaves the flag set, and only a
\* successful open or save clears the flag; the rows then differ from those of the
\* last successful open or save only while the flag is set.
ModifiedTracksChanges ==
  [][(error = "none" /\ error' = "none") =>
       /\ RowContents(St)' # RowContents(St) => (modified' = 1 \/ OpenedOrSaved)
       /\ (modified = 1 /\ modified' # 1) => OpenedOrSaved]_vars

=============================================================================
